---- MODULE Spec2Model ----
(***************************************************************************)
(* Model of the QNAP Terraform provider: the container resource            *)
(* (internal/provider/container_resource.go) and the application resource  *)
(* (unnamed/part_000), their lifecycle handlers, the plan/request and      *)
(* response/state mappers, the compose validator and the not-found         *)
(* classifiers.                                                            *)
(***************************************************************************)
EXTENDS Integers, Sequences, FiniteSets, TLC

VARIABLES
    cState,    \* persisted state of the container resource
    aState,    \* persisted state of the application resource
    cRemote,   \* the container on the server
    aRemote,   \* the application on the server
    diags,     \* diagnostics of the last operation
    calls,     \* remote calls of the last operation, in order
    op,        \* the last operation and its inputs
    crashed,   \* the last operation ended in a Go panic
    hist       \* history: the plans given to the last successful Creates

vars == <<cState, aState, cRemote, aRemote, diags, calls, op, crashed, hist>>

(***************************************************************************)
(* Bounds of the model.                                                    *)
(***************************************************************************)
MaxTime == 2
MaxNets == 2
MaxList == 2
MaxChanged == 2
MaxMsg == 3

(***************************************************************************)
(* Framework attribute values: null, unknown or known.  The val field of   *)
(* a null or unknown value is Go's zero value, which is what ValueString,  *)
(* ValueBool and ValueInt32 return for it.                                 *)
(***************************************************************************)
StringNull == [st |-> "null", val |-> ""]
StringUnknown == [st |-> "unknown", val |-> ""]
StringValue(s) == [st |-> "known", val |-> s]
Int32Null == [st |-> "null", val |-> 0]
Int32Unknown == [st |-> "unknown", val |-> 0]
Int32Value(n) == [st |-> "known", val |-> n]
BoolNull == [st |-> "null", val |-> FALSE]
BoolUnknown == [st |-> "unknown", val |-> FALSE]
BoolValue(b) == [st |-> "known", val |-> b]
ListNull == [st |-> "null", val |-> <<>>]
ListUnknown == [st |-> "unknown", val |-> <<>>]
ListValue(s) == [st |-> "known", val |-> s]
MapNull == [st |-> "null", val |-> {}]
MapUnknown == [st |-> "unknown", val |-> {}]
MapValue(m) == [st |-> "known", val |-> m]

IsNull(x) == x.st = "null"
IsUnknown(x) == x.st = "unknown"
IsKnown(x) == x.st = "known"
ValueString(x) == IF x.st = "known" THEN x.val ELSE ""
ValueInt32(x) == IF x.st = "known" THEN x.val ELSE 0
ValueBool(x) == IF x.st = "known" THEN x.val ELSE FALSE
Elements(x) == IF x.st = "known" THEN x.val ELSE <<>>

(***************************************************************************)
(* Diagnostics: a sequence of (severity, summary, detail).  A detail is    *)
(* the concatenation of a fixed prefix and a text.                         *)
(***************************************************************************)
ErrorDiag(summary, prefix, text) ==
    [sev |-> "error", summary |-> summary, prefix |-> prefix, text |-> text]
WarningDiag(summary) ==
    [sev |-> "warning", summary |-> summary, prefix |-> "", text |-> [kind |-> "none"]]
SelectSev(ds, s) == SelectSeq(ds, LAMBDA d : d.sev = s)
ErrorCount(ds) == Len(SelectSev(ds, "error"))
WarningCount(ds) == Len(SelectSev(ds, "warning"))
HasError(ds) == ErrorCount(ds) > 0

(***************************************************************************)
(* The client's error value is a formatted text.  It is modelled by the    *)
(* parts the classifiers scan for: whether it starts with "status: <n>,",  *)
(* whether it holds "body: {" and whether what follows is JSON, the code   *)
(* of that JSON and its message.  A message is a sequence of tokens: SEP   *)
(* is the two characters ": ", NSC the text "No such container", CFC the   *)
(* text "cannot find compose", "x" any other text.                         *)
(***************************************************************************)
SEP == "SEP"
NSC == "NSC"
CFC == "CFC"
MsgTokens == {SEP, NSC, CFC, "x"}

ClientError(head, status, body, code, message) ==
    [kind |-> "client", head |-> head, status |-> status, body |-> body,
     code |-> code, message |-> message]

\* strings.Split(s, ": ") on a token sequence: the segments between SEPs.
RECURSIVE SplitFrom(_, _, _)
SplitFrom(s, i, cur) ==
    IF i > Len(s) THEN <<cur>>
    ELSE IF s[i] = SEP THEN <<cur>> \o SplitFrom(s, i + 1, <<>>)
    ELSE SplitFrom(s, i + 1, Append(cur, s[i]))
Split(s) == SplitFrom(s, 1, <<>>)

\* strings.Contains(s, "No such container")
Contains(s, tok) == \E i \in 1..Len(s) : s[i] = tok

\* isNotFound: "true", "false", or "panic" when the index [1] of the split
\* message is out of range.
isNotFound(mess) ==
    IF mess.head # "status" THEN "false"
    ELSE IF mess.body = "none" THEN "false"
    ELSE IF mess.body # "json" THEN "false"
    ELSE IF mess.status = 404 /\ mess.code = 1009
         THEN IF Len(Split(mess.message)) < 2 THEN "panic"
              ELSE IF Split(mess.message)[2] = <<NSC>> THEN "true" ELSE "false"
         ELSE "false"

\* A classifier that accepts every message containing "cannot find compose".
isAppNotFoundContains(mess) ==
    IF mess.head # "status" THEN "false"
    ELSE IF mess.body # "json" THEN "false"
    ELSE IF mess.status = 404 /\ mess.code = 1009 /\ Contains(mess.message, CFC)
         THEN "true" ELSE "false"

isAppNotFound(mess) ==
    IF mess.head # "status" THEN "false"
    ELSE IF mess.body = "none" THEN "false"
    ELSE IF mess.body # "json" THEN "false"
    ELSE IF mess.status = 404 /\ mess.code = 1009 /\ mess.message = <<CFC>>
         THEN "true" ELSE "false"

(***************************************************************************)
(* Strings of the cmd, entrypoint and dns lists are sequences of           *)
(* characters, so that the element-to-string conversion of ReadStateOrPlan *)
(* can be computed.                                                        *)
(***************************************************************************)
DQ == "\""
BS == "\\"

\* strconv.Quote of one character, as fmt's %q applies it.
QuoteChar(c) == IF c = DQ THEN <<BS, DQ>> ELSE IF c = BS THEN <<BS, BS>> ELSE <<c>>

RECURSIVE QuoteChars(_)
QuoteChars(s) == IF s = <<>> THEN <<>> ELSE QuoteChar(Head(s)) \o QuoteChars(Tail(s))

\* attr.Value.String() of a list element: %q of a known string, a fixed
\* marker for a null or unknown one.
ElementString(item) ==
    IF item.st = "known" THEN <<DQ>> \o QuoteChars(item.val) \o <<DQ>>
    ELSE IF item.st = "null" THEN <<"<null>">>
    ELSE <<"<unknown>">>

\* strings.Replace(s, `"`, ``, -1)
StripQuotes(s) == SelectSeq(s, LAMBDA c : c # DQ)

RECURSIVE MapSeq(_, _)
MapSeq(F(_), s) == IF s = <<>> THEN <<>> ELSE <<F(Head(s))>> \o MapSeq(F, Tail(s))

ItemToRequest(item) == StripQuotes(ElementString(item))

(***************************************************************************)
(* ReadStateOrPlan: the plan mapped to the create request, with the        *)
(* diagnostics it records.                                                 *)
(***************************************************************************)
DeviceSkip(device) ==
    IF IsUnknown(device.name) THEN "Device key is unknown"
    ELSE IF IsNull(device.permission) THEN "Device key is null"
    ELSE ""

VolumeSkip(volume) ==
    \/ IsUnknown(volume.type) \/ IsNull(volume.type)
    \/ IsUnknown(volume.name) \/ IsNull(volume.name)
    \/ IsUnknown(volume.container) \/ IsNull(volume.container)
    \/ IsUnknown(volume.source) \/ IsNull(volume.source)
    \/ IsUnknown(volume.destination) \/ IsNull(volume.destination)
    \/ IsUnknown(volume.permission) \/ IsNull(volume.permission)

PortBindingSkip(portBinding) ==
    \/ IsUnknown(portBinding.host) \/ IsNull(portBinding.host)
    \/ IsUnknown(portBinding.container) \/ IsNull(portBinding.container)
    \/ IsUnknown(portBinding.protocol) \/ IsNull(portBinding.protocol)
    \/ IsUnknown(portBinding.hostip) \/ IsNull(portBinding.hostip)

RequestDevice(device) ==
    [name |-> ValueString(device.name), permission |-> ValueString(device.permission)]

RequestVolume(volume) ==
    [type |-> ValueString(volume.type), name |-> ValueString(volume.name),
     container |-> ValueString(volume.container), source |-> ValueString(volume.source),
     destination |-> ValueString(volume.destination),
     permission |-> ValueString(volume.permission)]

RequestPortBinding(portBinding) ==
    [host |-> ValueInt32(portBinding.host), container |-> ValueInt32(portBinding.container),
     protocol |-> ValueString(portBinding.protocol), hostip |-> ValueString(portBinding.hostip)]

RequestDevices(plan) ==
    MapSeq(RequestDevice, SelectSeq(Elements(plan.devices), LAMBDA d : DeviceSkip(d) = ""))

DeviceWarnings(plan) ==
    MapSeq(LAMBDA d : WarningDiag(DeviceSkip(d)),
           SelectSeq(Elements(plan.devices), LAMBDA d : DeviceSkip(d) # ""))

RequestVolumes(plan) ==
    MapSeq(RequestVolume, SelectSeq(Elements(plan.volumes), LAMBDA v : ~VolumeSkip(v)))

VolumeWarnings(plan) ==
    MapSeq(LAMBDA v : WarningDiag("Volume attributes are unknown or null"),
           SelectSeq(Elements(plan.volumes), VolumeSkip))

RequestPortBindings(plan) ==
    MapSeq(RequestPortBinding,
           SelectSeq(Elements(plan.portbindings), LAMBDA b : ~PortBindingSkip(b)))

PortBindingWarnings(plan) ==
    MapSeq(LAMBDA b : WarningDiag("Port binding attributes are unknown or null"),
           SelectSeq(Elements(plan.portbindings), PortBindingSkip))

\* A mapping that never skips the restart policy block.
RestartPolicyNoSkip(plan) == FALSE

RestartPolicySkip(plan) ==
    /\ ~IsNull(plan.restartpolicy) /\ ~IsUnknown(plan.restartpolicy)
    /\ \/ IsUnknown(plan.restartpolicy.val.name) \/ IsNull(plan.restartpolicy.val.name)
       \/ IsUnknown(plan.restartpolicy.val.maximumretrycount)
       \/ IsNull(plan.restartpolicy.val.maximumretrycount)

RequestRestartPolicy(plan) ==
    IF IsKnown(plan.restartpolicy) /\ ~RestartPolicySkip(plan)
    THEN [name |-> ValueString(plan.restartpolicy.val.name),
          maximumretrycount |-> ValueInt32(plan.restartpolicy.val.maximumretrycount)]
    ELSE [name |-> "", maximumretrycount |-> 0]

CpupinSkip(plan) ==
    /\ ~IsNull(plan.cpupin) /\ ~IsUnknown(plan.cpupin)
    /\ \/ IsUnknown(plan.cpupin.val.cpuids) \/ IsNull(plan.cpupin.val.cpuids)
       \/ IsUnknown(plan.cpupin.val.type) \/ IsNull(plan.cpupin.val.type)

RequestCpupin(plan) ==
    IF IsKnown(plan.cpupin) /\ ~CpupinSkip(plan)
    THEN [cpuids |-> ValueString(plan.cpupin.val.cpuids),
          type |-> ValueString(plan.cpupin.val.type)]
    ELSE [cpuids |-> "", type |-> ""]

\* Map.ElementsAs(ctx, target, false) with the map itself as target: the
\* framework's reflection refuses a target that is not a pointer and returns
\* an error diagnostic (which the caller drops), leaving the target as made.
ElementsAsMap(planMap, target) == target

ReadStateOrPlan(plan) ==
    [spec |->
        [type |-> ValueString(plan.type),
         name |-> ValueString(plan.name),
         image |-> ValueString(plan.image),
         autoremove |-> ValueBool(plan.autoremove),
         tty |-> ValueBool(plan.tty),
         openstdin |-> ValueBool(plan.openstdin),
         network |-> ValueString(plan.network),
         networktype |-> ValueString(plan.networktype),
         hostname |-> ValueString(plan.hostname),
         runtime |-> ValueString(plan.runtime),
         privileged |-> ValueBool(plan.privileged),
         ipaddress |-> ValueString(plan.ipaddress),
         devices |-> RequestDevices(plan),
         volumes |-> RequestVolumes(plan),
         portbindings |-> RequestPortBindings(plan),
         restartpolicy |-> RequestRestartPolicy(plan),
         cpupin |-> RequestCpupin(plan),
         env |-> ElementsAsMap(plan.env, {}),
         labels |-> ElementsAsMap(plan.labels, {}),
         cmd |-> MapSeq(ItemToRequest, Elements(plan.cmd)),
         entrypoint |-> MapSeq(ItemToRequest, Elements(plan.entrypoint)),
         dns |-> MapSeq(ItemToRequest, Elements(plan.dns))],
     diags |->
        DeviceWarnings(plan) \o VolumeWarnings(plan) \o PortBindingWarnings(plan)
        \o (IF RestartPolicySkip(plan)
            THEN <<WarningDiag("Port binding attributes are unknown or null")>> ELSE <<>>)
        \o (IF CpupinSkip(plan)
            THEN <<WarningDiag("Port binding attributes are unknown or null")>> ELSE <<>>)]

(***************************************************************************)
(* WriteState: the server's response mapped to a ContainerSpecModel.       *)
(***************************************************************************)
ObjectNull == [st |-> "null", val |-> <<>>]
ObjectUnknown == [st |-> "unknown", val |-> <<>>]
ObjectValue(o) == [st |-> "known", val |-> o]

\* ContainerSpecModel{}: every attribute is the zero value, which is null.
ContainerSpecModel ==
    [id |-> StringNull, type |-> StringNull, name |-> StringNull, image |-> StringNull,
     ipaddress |-> StringNull, autoremove |-> BoolNull, tty |-> BoolNull,
     openstdin |-> BoolNull, network |-> StringNull, networktype |-> StringNull,
     hostname |-> StringNull, last_updated |-> Int32Null, runtime |-> StringNull,
     privileged |-> BoolNull, removeanonvolumes |-> BoolNull, env |-> MapNull,
     labels |-> MapNull, devices |-> ListNull, volumes |-> ListNull,
     portbindings |-> ListNull, networks |-> ListNull, cpupin |-> ObjectNull,
     restartpolicy |-> ObjectNull, cmd |-> ListNull, entrypoint |-> ListNull,
     dns |-> ListNull, status |-> StringNull]

\* strings.ToLower on the protocol names.
ToLower(s) == IF s = "TCP" THEN "tcp" ELSE IF s = "UDP" THEN "udp" ELSE s

\* types.ListValueFrom of a []string: a nil slice gives a null list.
ListValueFrom(slice) ==
    IF slice.isNil THEN ListNull ELSE ListValue(MapSeq(StringValue, slice.elems))

\* A mapping that leaves the network's addresses empty.
StateNetworkNoAddress(network) ==
    [id |-> StringValue(network.id), name |-> StringValue(network.name),
     ipaddress |-> StringValue(""),
     displayname |-> StringValue(network.displayname),
     macaddress |-> StringValue(""),
     gateway |-> StringValue(""),
     networktype |-> StringValue(network.networktype),
     isstaticip |-> BoolValue(network.isstaticip)]

StateNetwork(network) ==
    [id |-> StringValue(network.id), name |-> StringValue(network.name),
     ipaddress |-> StringValue(network.ipaddress),
     displayname |-> StringValue(network.displayname),
     macaddress |-> StringValue(network.macaddress),
     gateway |-> StringValue(network.gateway),
     networktype |-> StringValue(network.networktype),
     isstaticip |-> BoolValue(network.isstaticip)]

StateVolume(volume) ==
    [type |-> StringValue(volume.type), name |-> StringValue(volume.name),
     container |-> StringValue(volume.container), source |-> StringValue(volume.source),
     destination |-> StringValue(volume.destination),
     permission |-> StringValue(volume.permission)]

StateDevice(device) ==
    [name |-> StringValue(device.name), permission |-> StringValue(device.permission)]

StatePortBinding(portBinding) ==
    [host |-> Int32Value(portBinding.host), container |-> Int32Value(portBinding.container),
     protocol |-> StringValue(ToLower(portBinding.protocol)),
     hostip |-> StringValue(portBinding.hostip)]

\* A mapping that takes the address of the first network, however many
\* networks there are.
StateIPAddressFirstNetwork(plan, data) ==
    IF Len(data.networks) >= 1
    THEN StringValue(data.networks[1].ipaddress)
    ELSE StringValue("")

StateIPAddress(plan, data) ==
    IF IsNull(plan.ipaddress) \/ IsUnknown(plan.ipaddress)
    THEN IF Len(data.networks) = 1 /\ data.networks[1].ipaddress # ""
         THEN StringValue(data.networks[1].ipaddress)
         ELSE StringValue("")
    ELSE plan.ipaddress

\* The result of WriteState: panic is TRUE when container.Data.Networks[0]
\* is read from an empty list; otherwise state is the mapped model.
\* last_updated is the formatted time.Now(); it is modelled by the instant.
WriteState(data, now) ==
    IF Len(data.networks) = 0
    THEN [panic |-> TRUE, state |-> ContainerSpecModel, diags |-> <<>>]
    ELSE [panic |-> FALSE,
          state |->
            [ContainerSpecModel EXCEPT
                !.id = StringValue(data.id),
                !.autoremove = BoolValue(data.autoremove),
                !.cmd = ListValueFrom(data.cmd),
                !.tty = BoolValue(data.tty),
                !.openstdin = BoolValue(data.openstdin),
                !.hostname = StringValue(data.hostname),
                !.runtime = StringValue(data.runtime),
                !.privileged = BoolValue(data.privileged),
                !.name = StringValue(data.name),
                !.image = StringValue(data.image),
                !.type = StringValue(data.type),
                !.status = StringValue(data.status),
                !.networktype = StringValue(data.networks[1].networktype),
                !.entrypoint = ListValue(MapSeq(StringValue, data.entrypoint)),
                !.dns = ListValue(MapSeq(StringValue, data.dns)),
                !.env = MapValue(data.env),
                !.labels = MapValue(data.labels),
                !.networks = ListValue(MapSeq(StateNetwork, data.networks)),
                !.ipaddress = StateIPAddress(ContainerSpecModel, data),
                !.volumes = ListValue(MapSeq(StateVolume, data.volumes)),
                !.devices = ListValue(MapSeq(StateDevice, data.devices)),
                !.portbindings = ListValue(MapSeq(StatePortBinding, data.portbindings)),
                !.restartpolicy =
                    ObjectValue([name |-> StringValue(data.restartpolicy.name),
                                 maximumretrycount |->
                                     Int32Value(data.restartpolicy.maximumretrycount)]),
                !.cpupin =
                    ObjectValue([cpuids |-> StringValue(data.cpupin.cpuids),
                                 type |-> StringValue(data.cpupin.type)]),
                !.last_updated = Int32Value(now)],
          diags |-> <<>>]

\* A comparison that keeps the prior state.
CompareStatesKeepPrior(plan, state) == plan

\* CompareStates returns the freshly mapped state.
CompareStates(plan, state) == state

(***************************************************************************)
(* The server, seen through the client library.  A created container has   *)
(* the attributes of the request; the ID, the status and the attached      *)
(* networks are the server's.                                              *)
(***************************************************************************)
ServerNetwork(spec, i, ip) ==
    [id |-> i, name |-> spec.network,
     ipaddress |-> IF spec.ipaddress # "" THEN spec.ipaddress ELSE ip,
     displayname |-> "Container Network", macaddress |-> "02:42:0a:00:03:0d",
     gateway |-> "10.0.3.1", networktype |-> spec.networktype,
     isstaticip |-> spec.ipaddress # ""]

ServerNetworks(spec, n, ip) == [i \in 1..n |-> ServerNetwork(spec, i, ip)]

ContainerData(spec, id, status, n, ip) ==
    [id |-> id, status |-> status, type |-> spec.type, name |-> spec.name,
     image |-> spec.image, autoremove |-> spec.autoremove, tty |-> spec.tty,
     openstdin |-> spec.openstdin, hostname |-> spec.hostname, runtime |-> spec.runtime,
     privileged |-> spec.privileged,
     cmd |-> [isNil |-> spec.cmd = <<>>, elems |-> spec.cmd],
     entrypoint |-> spec.entrypoint, dns |-> spec.dns, env |-> spec.env,
     labels |-> spec.labels, devices |-> spec.devices, volumes |-> spec.volumes,
     portbindings |-> spec.portbindings, restartpolicy |-> spec.restartpolicy,
     cpupin |-> spec.cpupin, networks |-> ServerNetworks(spec, n, ip)]

ServerStatuses == {"running", "stopped"}
ServerIDs == {"2b4bd836"}
ServerIPs == {"10.0.3.13"}

NoError == [kind |-> "none"]
NoData == [kind |-> "none"]
NoPlan == [kind |-> "none"]

\* Error texts the client returns for container calls.
ContainerErrors ==
    {ClientError("status", 404, "json", 1009, <<"x", SEP, NSC>>),
     ClientError("status", 404, "json", 1009, <<NSC>>),
     ClientError("status", 500, "json", 1000, <<"x", SEP, "x">>),
     ClientError("other", 0, "none", 0, <<>>)}

NoContainer == [exists |-> FALSE, id |-> "", spec |-> NoData]

\* r.client.CreateContainer: an error, or the data of the created container.
CreateContainerResults(spec, remote) ==
    [ok : {FALSE}, err : ContainerErrors, data : {NoData}]
    \cup {[ok |-> TRUE, err |-> NoError, data |-> ContainerData(spec, id, st, n, ip)] :
            <<id, st, n, ip>> \in ServerIDs \X ServerStatuses \X (0..MaxNets) \X ServerIPs}

\* r.client.InspectContainer: an error, or the container's present data.
InspectContainerResults(id, remote) ==
    [ok : {FALSE}, err : ContainerErrors, data : {NoData}]
    \cup IF ~remote.exists \/ remote.id # id THEN {}
         ELSE {[ok |-> TRUE, err |-> NoError,
                data |-> ContainerData(remote.spec, remote.id, st, n, ip)] :
                 <<st, n, ip>> \in ServerStatuses \X (0..MaxNets) \X ServerIPs}

\* r.client.DeleteContainer
DeleteContainerResults(id, remote) ==
    [ok : {FALSE}, err : ContainerErrors]
    \cup IF ~remote.exists \/ remote.id # id THEN {}
         ELSE {[ok |-> TRUE, err |-> NoError]}

Times == 1..MaxTime

\* time.Now() is read only when a response is mapped to state.
TimesOf(res) == IF res.ok THEN Times ELSE {1}

Absent(zero) == [present |-> FALSE, val |-> zero]
Present(state) == [present |-> TRUE, val |-> state]

(***************************************************************************)
(* Lifecycle of the container resource.  The framework hands Create an     *)
(* empty state, hands Update and Read the prior state, and drops the state *)
(* after a Delete that recorded no error.                                  *)
(***************************************************************************)
\* A Create that reports the failure without the client's error text.
ContainerCreateErrorNoText(err) ==
    ErrorDiag("Error creating container",
              "Could not create container, unexpected error: ", NoError)

\* resp.Diagnostics.AddError of Create
ContainerCreateError(err) ==
    ErrorDiag("Error creating container",
              "Could not create container, unexpected error: ", err)

\* A Create that keeps the plan's hostname next to the two plan attributes.
ContainerCreateStateKeepPlan(plan, state) ==
    [state EXCEPT !.removeanonvolumes = plan.removeanonvolumes,
                  !.network = plan.network,
                  !.hostname = plan.hostname]

\* Create: the two attributes the server does not report come from the plan.
ContainerCreateState(plan, state) ==
    [state EXCEPT !.removeanonvolumes = plan.removeanonvolumes,
                  !.network = plan.network]

ContainerCreate(plan) ==
    /\ ~cState.present
    /\ LET newContainer == ReadStateOrPlan(plan) IN
       \E res \in CreateContainerResults(newContainer.spec, cRemote) : \E now \in TimesOf(res) :
          LET w == WriteState(res.data, now)
              call == [call |-> "CreateContainer", spec |-> newContainer.spec]
          IN
          /\ op' = [name |-> "Create", kind |-> "container", plan |-> plan,
                    ok |-> res.ok, err |-> res.err, data |-> res.data]
          /\ calls' = <<call>>
          /\ IF ~res.ok
             THEN /\ diags' = newContainer.diags \o <<ContainerCreateError(res.err)>>
                  /\ crashed' = FALSE
                  /\ UNCHANGED <<cState, cRemote, hist>>
             ELSE /\ cRemote' = [exists |-> TRUE, id |-> res.data.id,
                                 spec |-> newContainer.spec]
                  /\ IF w.panic
                     THEN /\ crashed' = TRUE
                          /\ diags' = <<>>
                          /\ UNCHANGED <<cState, hist>>
                     ELSE /\ crashed' = FALSE
                          /\ diags' = newContainer.diags \o w.diags
                          /\ cState' = Present(ContainerCreateState(plan, w.state))
                          /\ hist' = [hist EXCEPT
                                        !.cRemoveAnon = ValueBool(plan.removeanonvolumes)]
    /\ UNCHANGED <<aState, aRemote>>

\* A Read that returns on a not-found error without RemoveResource.
ContainerReadNotFoundKeep(prior) == prior

\* resp.State.RemoveResource of Read
ContainerReadNotFound(prior) == Absent(ContainerSpecModel)

\* resp.Diagnostics.AddError of Read
ContainerReadError(err) ==
    ErrorDiag("Unable to Read Resource",
              "An error occurred while reading the resource: ", err)

\* A Read that carries only the network over from the prior state.
ContainerReadStateNetworkOnly(prior, state) ==
    [state EXCEPT !.network = prior.network]

\* Read: the two attributes the server does not report come from the prior state.
ContainerReadState(prior, state) ==
    [state EXCEPT !.removeanonvolumes = prior.removeanonvolumes,
                  !.network = prior.network]

ContainerRead ==
    /\ cState.present
    /\ LET state == cState.val
           call == [call |-> "InspectContainer", id |-> ValueString(state.id),
                    type |-> ValueString(state.type)]
       IN
       \E res \in InspectContainerResults(ValueString(state.id), cRemote) :
       \E now \in TimesOf(res) :
          LET w == WriteState(res.data, now) IN
          /\ op' = [name |-> "Read", kind |-> "container", plan |-> NoPlan,
                    ok |-> res.ok, err |-> res.err, data |-> res.data]
          /\ calls' = <<call>>
          /\ IF ~res.ok
             THEN CASE isNotFound(res.err) = "true" ->
                        /\ cState' = ContainerReadNotFound(cState)
                        /\ diags' = <<>>
                        /\ crashed' = FALSE
                    [] isNotFound(res.err) = "panic" ->
                        /\ crashed' = TRUE
                        /\ diags' = <<>>
                        /\ UNCHANGED cState
                    [] OTHER ->
                        /\ diags' = <<ContainerReadError(res.err)>>
                        /\ crashed' = FALSE
                        /\ UNCHANGED cState
             ELSE IF w.panic
                  THEN /\ crashed' = TRUE
                       /\ diags' = <<>>
                       /\ UNCHANGED cState
                  ELSE /\ crashed' = FALSE
                       /\ diags' = w.diags
                       /\ cState' = Present(ContainerReadState(state,
                                                CompareStates(state, w.state)))
    /\ UNCHANGED <<aState, cRemote, aRemote, hist>>

\* An Update that sends the plan to the server as a new create request.
ContainerUpdateRecreate(plan) ==
    /\ cState.present
    /\ op' = [name |-> "Update", kind |-> "container", plan |-> plan,
              ok |-> TRUE, err |-> NoError, data |-> NoData]
    /\ calls' = <<[call |-> "CreateContainer", spec |-> ReadStateOrPlan(plan).spec]>>
    /\ diags' = <<>>
    /\ crashed' = FALSE
    /\ cRemote' = [exists |-> TRUE, id |-> cRemote.id, spec |-> ReadStateOrPlan(plan).spec]
    /\ UNCHANGED <<cState, aState, aRemote, hist>>

\* Update: the handler has no statements; the response keeps the prior state.
ContainerUpdate(plan) ==
    /\ cState.present
    /\ op' = [name |-> "Update", kind |-> "container", plan |-> plan,
              ok |-> TRUE, err |-> NoError, data |-> NoData]
    /\ calls' = <<>>
    /\ diags' = <<>>
    /\ crashed' = FALSE
    /\ UNCHANGED <<cState, aState, cRemote, aRemote, hist>>

ContainerDelete ==
    /\ cState.present
    /\ LET state == cState.val
           call == [call |-> "DeleteContainer", id |-> ValueString(state.id),
                    type |-> ValueString(state.type),
                    removeAnonVolumes |-> ValueBool(state.removeanonvolumes)]
       IN
       \E res \in DeleteContainerResults(ValueString(state.id), cRemote) :
          /\ op' = [name |-> "Delete", kind |-> "container", plan |-> NoPlan,
                    ok |-> res.ok, err |-> res.err, data |-> NoData]
          /\ calls' = <<call>>
          /\ crashed' = FALSE
          /\ IF ~res.ok
             THEN /\ diags' = <<ErrorDiag("Error Deleting HashiCups Order",
                                          "Could not delete order, unexpected error: ",
                                          res.err)>>
                  /\ UNCHANGED <<cState, cRemote>>
             ELSE /\ diags' = <<>>
                  /\ cState' = Absent(ContainerSpecModel)
                  /\ cRemote' = NoContainer
    /\ UNCHANGED <<aState, aRemote, hist>>

(***************************************************************************)
(* The application resource.  A compose text is modelled by what           *)
(* yaml.Unmarshal makes of it: whether it decodes into a ComposeFile, the  *)
(* version, the services, and whether the text holds anything a            *)
(* ComposeFile does not keep (comments, keys the struct lacks, layout).    *)
(***************************************************************************)
ServiceNames == <<"db", "web">>
NoServices == [n \in {} |-> [image |-> "", context |-> ""]]

ComposeText(parseable, version, services, extras) ==
    [parseable |-> parseable, version |-> version, services |-> services,
     extras |-> extras]

\* The empty string.
EmptyText == ComposeText(TRUE, "", NoServices, FALSE)

YmlNull == [st |-> "null", val |-> EmptyText]
YmlValue(text) == [st |-> "known", val |-> text]

\* yaml.Unmarshal into a ComposeFile.
Unmarshal(text) ==
    [err |-> ~text.parseable,
     compose |-> IF text.parseable
                 THEN [version |-> text.version, services |-> text.services]
                 ELSE [version |-> "", services |-> NoServices]]

\* yaml.Marshal of a ComposeFile.
Marshal(compose) == ComposeText(TRUE, compose.version, compose.services, FALSE)

YamlError(what, service) == [kind |-> "yaml", what |-> what, service |-> service]

BadServices(compose) ==
    {n \in DOMAIN compose.services :
        compose.services[n].image = "" /\ compose.services[n].context = ""}

\* A validateYAML without the checks on version and services.
validateYAMLParseOnly(yamlData) ==
    LET u == Unmarshal(yamlData) IN
    IF u.err THEN {[yml |-> EmptyText, err |-> YamlError("invalid YAML", "")]}
    ELSE {[yml |-> Marshal(u.compose), err |-> NoError]}

\* validateYAML: the possible results; the range over the services map
\* visits them in any order, so any offending service may be the one named.
validateYAML(yamlData) ==
    LET u == Unmarshal(yamlData) IN
    IF u.err THEN {[yml |-> EmptyText, err |-> YamlError("invalid YAML", "")]}
    ELSE IF u.compose.version = ""
         THEN {[yml |-> EmptyText, err |-> YamlError("missing required field: version", "")]}
    ELSE IF DOMAIN u.compose.services = {}
         THEN {[yml |-> EmptyText, err |-> YamlError("no services defined", "")]}
    ELSE IF BadServices(u.compose) # {}
         THEN {[yml |-> EmptyText,
                err |-> YamlError("service must have either an image or a build context", n)] :
                  n \in BadServices(u.compose)}
    ELSE {[yml |-> Marshal(u.compose), err |-> NoError]}

\* AppSpecModel{}
AppSpecModel ==
    [last_updated |-> Int32Null, name |-> StringNull, yml |-> YmlNull,
     default_url |-> ObjectNull, containers |-> ListNull, cpu_limit |-> Int32Null,
     mem_limit |-> Int32Null, mem_reservation |-> Int32Null,
     removeanonvolumes |-> BoolNull, status |-> StringNull]

DefaultURLSkip(plan) ==
    /\ ~IsNull(plan.default_url) /\ ~IsUnknown(plan.default_url)
    /\ \/ IsUnknown(plan.default_url.val.service) \/ IsNull(plan.default_url.val.service)
       \/ IsUnknown(plan.default_url.val.port) \/ IsNull(plan.default_url.val.port)

RequestDefaultURL(plan) ==
    IF IsKnown(plan.default_url) /\ ~DefaultURLSkip(plan)
    THEN [service |-> ValueString(plan.default_url.val.service),
          port |-> ValueInt32(plan.default_url.val.port)]
    ELSE [service |-> "", port |-> 0]

\* A ReadState that sends the text of the plan.
ReadStateWithPlanText(plan, v) ==
    IF v.err # NoError
    THEN [req |-> NoData,
          diags |-> <<ErrorDiag("error validating and converting YAML to string", "", v.err)>>]
    ELSE [req |-> [name |-> ValueString(plan.name),
                   yml |-> plan.yml.val,
                   cpu_limit |-> ValueInt32(plan.cpu_limit),
                   mem_limit |-> ValueInt32(plan.mem_limit),
                   mem_reservation |-> ValueInt32(plan.mem_reservation),
                   default_url |-> RequestDefaultURL(plan)],
          diags |-> IF DefaultURLSkip(plan)
                    THEN <<WarningDiag("missing default url attributes")>> ELSE <<>>]

\* ReadState with the outcome v of validateYAML: the create request and the
\* diagnostics.
ReadStateWith(plan, v) ==
    IF v.err # NoError
    THEN [req |-> NoData,
          diags |-> <<ErrorDiag("error validating and converting YAML to string", "", v.err)>>]
    ELSE [req |-> [name |-> ValueString(plan.name),
                   yml |-> v.yml,
                   cpu_limit |-> ValueInt32(plan.cpu_limit),
                   mem_limit |-> ValueInt32(plan.mem_limit),
                   mem_reservation |-> ValueInt32(plan.mem_reservation),
                   default_url |-> RequestDefaultURL(plan)],
          diags |-> IF DefaultURLSkip(plan)
                    THEN <<WarningDiag("missing default url attributes")>> ELSE <<>>]

ReadState(plan) == {ReadStateWith(plan, v) : v \in validateYAML(plan.yml.val)}

StateContainerNameOnly(container) ==
    [name |-> StringValue(container.name), id |-> StringNull]

StateContainer(container) ==
    [name |-> StringValue(container.name), id |-> StringValue(container.id)]

\* a.Equal(b) of two Int32 or String values
ValueEqual(a, b) == a.st = b.st /\ (a.st = "known" => a.val = b.val)

\* GetCurrentState: the new state, or the error diagnostics it returns with
\* a nil state.  ObjectValue.As on the new state's default_url, which is
\* null, fails for a struct target, so a known prior default_url ends in
\* an error.
GetCurrentState(priorState, data, now) ==
    IF Unmarshal(priorState.yml.val).err
    THEN [ok |-> FALSE, state |-> AppSpecModel,
          diags |-> <<ErrorDiag("invalid YAML from priorState", "", YamlError("invalid YAML", ""))>>]
    ELSE IF Unmarshal(data.yml).err
    THEN [ok |-> FALSE, state |-> AppSpecModel,
          diags |-> <<ErrorDiag("invalid YAML from QNAP", "", YamlError("invalid YAML", ""))>>]
    ELSE IF ~IsNull(priorState.default_url) /\ ~IsUnknown(priorState.default_url)
    THEN [ok |-> FALSE, state |-> AppSpecModel,
          diags |-> <<ErrorDiag("Value Conversion Error", "", [kind |-> "conversion"])>>]
    ELSE [ok |-> TRUE,
          state |->
            [AppSpecModel EXCEPT
                !.yml = IF Unmarshal(data.yml).compose = Unmarshal(priorState.yml.val).compose
                        THEN priorState.yml ELSE YmlValue(data.yml),
                !.cpu_limit = IF ValueEqual(priorState.cpu_limit, Int32Value(data.cpu_limit))
                              THEN priorState.cpu_limit ELSE Int32Value(data.cpu_limit),
                !.mem_limit = IF ValueEqual(priorState.mem_limit, Int32Value(data.mem_limit))
                              THEN priorState.mem_limit ELSE Int32Value(data.mem_limit),
                !.mem_reservation =
                    IF ValueEqual(priorState.mem_reservation, Int32Value(data.mem_reservation))
                    THEN priorState.mem_reservation ELSE Int32Value(data.mem_reservation),
                !.status = IF ValueEqual(priorState.status, StringValue(data.status))
                           THEN priorState.status ELSE StringValue(data.status),
                !.containers = ListValue(MapSeq(StateContainer, data.containers)),
                !.default_url = priorState.default_url,
                !.name = priorState.name,
                !.last_updated = Int32Value(now)],
          diags |-> <<>>]

AppStatuses == {"running", "stopped"}

\* Error texts the client returns for application calls.
AppErrors ==
    {ClientError("status", 404, "json", 1009, <<CFC>>),
     ClientError("status", 404, "json", 1009, <<"x", SEP, CFC>>),
     ClientError("other", 0, "none", 0, <<>>)}

NoApp == [exists |-> FALSE, name |-> "", req |-> NoData]

\* The containers the server reports for an application: one per service.
AppContainers(services) ==
    MapSeq(LAMBDA n : [id |-> n, name |-> n],
           SelectSeq(ServiceNames, LAMBDA n : n \in DOMAIN services))

AppData(req, status) ==
    [yml |-> req.yml, cpu_limit |-> req.cpu_limit, mem_limit |-> req.mem_limit,
     mem_reservation |-> req.mem_reservation, status |-> status,
     containers |-> AppContainers(Unmarshal(req.yml).compose.services),
     default_url |-> req.default_url]

\* r.client.CreateApplication
CreateApplicationResults(req, remote) ==
    [ok : {FALSE}, err : AppErrors, data : {NoData}]
    \cup {[ok |-> TRUE, err |-> NoError, data |-> AppData(req, st)] : st \in AppStatuses}

\* r.client.InspectApplication
InspectApplicationResults(name, remote) ==
    [ok : {FALSE}, err : AppErrors, data : {NoData}]
    \cup IF ~remote.exists \/ remote.name # name THEN {}
         ELSE {[ok |-> TRUE, err |-> NoError, data |-> AppData(remote.req, st)] :
                 st \in AppStatuses}

\* r.client.DeleteApplication
DeleteApplicationResults(name, remote) ==
    [ok : {FALSE}, err : AppErrors]
    \cup IF ~remote.exists \/ remote.name # name THEN {}
         ELSE {[ok |-> TRUE, err |-> NoError]}

\* resp.Diagnostics.AddError of Create
AppCreateError(err) ==
    ErrorDiag("Error creating app", "Could not create app, unexpected error: ", err)

AppCreateState(plan, state) ==
    [state EXCEPT !.removeanonvolumes = plan.removeanonvolumes]

AppCreate(plan) ==
    /\ ~aState.present
    /\ \E newAppPlan \in ReadState(plan) :
          IF HasError(newAppPlan.diags)
          THEN /\ op' = [name |-> "Create", kind |-> "app", plan |-> plan,
                         ok |-> FALSE, err |-> NoError, data |-> NoData]
               /\ calls' = <<>>
               /\ diags' = newAppPlan.diags
               /\ UNCHANGED <<aState, aRemote, hist>>
          ELSE \E res \in CreateApplicationResults(newAppPlan.req, aRemote) :
               \E now \in TimesOf(res) :
                 LET g == GetCurrentState(plan, res.data, now) IN
                 /\ op' = [name |-> "Create", kind |-> "app", plan |-> plan,
                           ok |-> res.ok, err |-> res.err, data |-> res.data]
                 /\ calls' = <<[call |-> "CreateApplication", req |-> newAppPlan.req]>>
                 /\ IF ~res.ok
                    THEN /\ diags' = newAppPlan.diags \o <<AppCreateError(res.err)>>
                         /\ UNCHANGED <<aState, aRemote, hist>>
                    ELSE /\ aRemote' = [exists |-> TRUE, name |-> newAppPlan.req.name,
                                        req |-> newAppPlan.req]
                         /\ diags' = newAppPlan.diags \o g.diags
                         /\ IF ~g.ok
                            THEN UNCHANGED <<aState, hist>>
                            ELSE /\ aState' = Present(AppCreateState(plan, g.state))
                                 /\ hist' = [hist EXCEPT
                                       !.aRemoveAnon = ValueBool(plan.removeanonvolumes)]
    /\ crashed' = FALSE
    /\ UNCHANGED <<cState, cRemote>>

\* resp.State.RemoveResource of Read
AppReadNotFound(priorState) == Absent(AppSpecModel)

\* resp.Diagnostics.AddError of Read
AppReadError(err) ==
    ErrorDiag("Unable to Read Resource",
              "An error occurred while reading the resource: ", err)

AppReadState(priorState, state) ==
    [state EXCEPT !.removeanonvolumes = priorState.removeanonvolumes]

AppRead ==
    /\ aState.present
    /\ LET priorState == aState.val
           call == [call |-> "InspectApplication", name |-> ValueString(priorState.name)]
       IN
       \E res \in InspectApplicationResults(ValueString(priorState.name), aRemote) :
       \E now \in TimesOf(res) :
          LET g == GetCurrentState(priorState, res.data, now) IN
          /\ op' = [name |-> "Read", kind |-> "app", plan |-> NoPlan,
                    ok |-> res.ok, err |-> res.err, data |-> res.data]
          /\ calls' = <<call>>
          /\ IF ~res.ok
             THEN IF isAppNotFound(res.err) = "true"
                  THEN /\ aState' = AppReadNotFound(aState)
                       /\ diags' = <<>>
                  ELSE /\ diags' = <<AppReadError(res.err)>>
                       /\ UNCHANGED aState
             ELSE /\ diags' = g.diags
                  /\ IF ~g.ok
                     THEN UNCHANGED aState
                     ELSE aState' = Present(AppReadState(priorState, g.state))
    /\ crashed' = FALSE
    /\ UNCHANGED <<cState, cRemote, aRemote, hist>>

AppUpdate(plan) ==
    /\ aState.present
    /\ op' = [name |-> "Update", kind |-> "app", plan |-> plan,
              ok |-> TRUE, err |-> NoError, data |-> NoData]
    /\ calls' = <<>>
    /\ diags' = <<>>
    /\ crashed' = FALSE
    /\ UNCHANGED <<cState, aState, cRemote, aRemote, hist>>

\* A Delete of the application that also drops the container's state.
AppDeleteSharedState ==
    /\ aState.present
    /\ LET state == aState.val
           call == [call |-> "DeleteApplication", name |-> ValueString(state.name),
                    removeAnonVolumes |-> ValueBool(state.removeanonvolumes)]
       IN
       \E res \in DeleteApplicationResults(ValueString(state.name), aRemote) :
          /\ op' = [name |-> "Delete", kind |-> "app", plan |-> NoPlan,
                    ok |-> res.ok, err |-> res.err, data |-> NoData]
          /\ calls' = <<call>>
          /\ diags' = <<>>
          /\ aState' = Absent(AppSpecModel)
          /\ cState' = Absent(ContainerSpecModel)
          /\ aRemote' = NoApp
    /\ crashed' = FALSE
    /\ UNCHANGED <<cRemote, hist>>

AppDelete ==
    /\ aState.present
    /\ LET state == aState.val
           call == [call |-> "DeleteApplication", name |-> ValueString(state.name),
                    removeAnonVolumes |-> ValueBool(state.removeanonvolumes)]
       IN
       \E res \in DeleteApplicationResults(ValueString(state.name), aRemote) :
          /\ op' = [name |-> "Delete", kind |-> "app", plan |-> NoPlan,
                    ok |-> res.ok, err |-> res.err, data |-> NoData]
          /\ calls' = <<call>>
          /\ IF ~res.ok
             THEN /\ diags' = <<ErrorDiag("Error Deleting HashiCups Order",
                                          "Could not delete order, unexpected error: ",
                                          res.err)>>
                  /\ UNCHANGED <<aState, aRemote>>
             ELSE /\ diags' = <<>>
                  /\ aState' = Absent(AppSpecModel)
                  /\ aRemote' = NoApp
    /\ crashed' = FALSE
    /\ UNCHANGED <<cState, cRemote, hist>>

(***************************************************************************)
(* Plans of the lifecycle specification.  An attribute that is optional    *)
(* and computed and left out of the configuration is unknown in the plan   *)
(* given to Create; one that is optional only is null.                     *)
(***************************************************************************)
FullPortBinding ==
    [host |-> Int32Value(49123), container |-> Int32Value(80),
     protocol |-> StringValue("tcp"), hostip |-> StringValue("0.0.0.0")]
PartialPortBinding == [FullPortBinding EXCEPT !.hostip = StringUnknown]

BaseContainerPlan ==
    [id |-> StringUnknown, type |-> StringValue("docker"),
     name |-> StringValue("test-container"), image |-> StringValue("nginx:latest"),
     ipaddress |-> StringUnknown, autoremove |-> BoolUnknown, tty |-> BoolUnknown,
     openstdin |-> BoolUnknown, network |-> StringValue("eth0"),
     networktype |-> StringValue("bridge"), hostname |-> StringUnknown,
     last_updated |-> Int32Unknown, runtime |-> StringUnknown,
     privileged |-> BoolUnknown, removeanonvolumes |-> BoolValue(TRUE),
     env |-> MapUnknown, labels |-> MapUnknown, devices |-> ListUnknown,
     volumes |-> ListUnknown, portbindings |-> ListUnknown, networks |-> ListUnknown,
     cpupin |-> ObjectUnknown, restartpolicy |-> ObjectUnknown, cmd |-> ListUnknown,
     entrypoint |-> ListUnknown, dns |-> ListUnknown, status |-> StringValue("running")]

ContainerPlans ==
    {[BaseContainerPlan EXCEPT !.status = StringValue(st),
                               !.removeanonvolumes = BoolValue(b)] :
        <<st, b>> \in {"running", "stopped"} \X BOOLEAN}
    \cup {[BaseContainerPlan EXCEPT
              !.portbindings = ListValue(<<PartialPortBinding, FullPortBinding>>)]}

OneService == [n \in {"web"} |-> [image |-> "nginx", context |-> ""]]
TwoServices ==
    [n \in {"db", "web"} |->
        IF n = "db" THEN [image |-> "", context |-> "."]
        ELSE [image |-> "nginx", context |-> ""]]
OneBadService == [TwoServices EXCEPT !["db"] = [image |-> "", context |-> ""]]
TwoBadServices == [n \in {"db", "web"} |-> [image |-> "", context |-> ""]]

ValidTexts ==
    {ComposeText(TRUE, "3", OneService, FALSE), ComposeText(TRUE, "3", TwoServices, TRUE)}

InvalidTexts ==
    {ComposeText(FALSE, "", NoServices, TRUE),
     ComposeText(TRUE, "", TwoServices, TRUE),
     ComposeText(TRUE, "3", NoServices, FALSE),
     ComposeText(TRUE, "3", OneBadService, TRUE),
     ComposeText(TRUE, "3", TwoBadServices, FALSE)}

FullDefaultURL == ObjectValue([service |-> StringValue("web"), port |-> Int32Value(80)])
PartialDefaultURL == ObjectValue([service |-> StringValue("web"), port |-> Int32Null])

BaseAppPlan ==
    [last_updated |-> Int32Unknown, name |-> StringValue("app1"),
     yml |-> YmlValue(ComposeText(TRUE, "3", OneService, FALSE)),
     default_url |-> ObjectNull, containers |-> ListUnknown,
     cpu_limit |-> Int32Unknown, mem_limit |-> Int32Unknown,
     mem_reservation |-> Int32Unknown, removeanonvolumes |-> BoolValue(TRUE),
     status |-> StringValue("running")]

AppPlans ==
    {[BaseAppPlan EXCEPT !.yml = YmlValue(t)] : t \in InvalidTexts}
    \cup {[BaseAppPlan EXCEPT !.yml = YmlValue(t), !.removeanonvolumes = BoolValue(b)] :
            <<t, b>> \in ValidTexts \X BOOLEAN}
    \cup {[BaseAppPlan EXCEPT !.default_url = u] : u \in {FullDefaultURL, PartialDefaultURL}}

(***************************************************************************)
(* The lifecycle specification: one container and one application, the     *)
(* host runtime calling their handlers in any order.                       *)
(***************************************************************************)
Init ==
    /\ cState = Absent(ContainerSpecModel)
    /\ aState = Absent(AppSpecModel)
    /\ cRemote = NoContainer
    /\ aRemote = NoApp
    /\ diags = <<>>
    /\ calls = <<>>
    /\ op = [name |-> "Init", kind |-> "none", plan |-> NoPlan, ok |-> TRUE,
             err |-> NoError, data |-> NoData]
    /\ crashed = FALSE
    /\ hist = [cRemoveAnon |-> FALSE, aRemoveAnon |-> FALSE]

Next ==
    \/ \E plan \in ContainerPlans : ContainerCreate(plan)
    \/ ContainerRead
    \/ \E plan \in ContainerPlans : ContainerUpdate(plan)
    \/ ContainerDelete
    \/ \E plan \in AppPlans : AppCreate(plan)
    \/ AppRead
    \/ \E plan \in AppPlans : AppUpdate(plan)
    \/ AppDelete

Spec == Init /\ [][Next]_vars

(***************************************************************************)
(* The mapping specification: a plan is mapped to a create request by      *)
(* ReadStateOrPlan, a server echoes every field of the request in its      *)
(* response, and WriteState maps the response to state.  The plans vary    *)
(* one attribute of the base plan each.                                    *)
(***************************************************************************)
SeqsUpTo(S, n) == UNION {[1..k -> S] : k \in 0..n}

FullVolume ==
    [type |-> StringValue("host"), name |-> StringValue("/share/data"),
     container |-> StringValue(""), source |-> StringValue("/share/data"),
     destination |-> StringValue("/data"), permission |-> StringValue("writable")]

FullDevice == [name |-> StringValue("/dev/fuse"), permission |-> StringValue("rw")]

PortBindingEntries ==
    {FullPortBinding, PartialPortBinding,
     [FullPortBinding EXCEPT !.host = Int32Value(49124), !.protocol = StringValue("udp")]}

VolumeEntries == {FullVolume, [FullVolume EXCEPT !.container = StringNull]}

DeviceEntries ==
    {FullDevice,
     [FullDevice EXCEPT !.name = StringUnknown], [FullDevice EXCEPT !.name = StringNull],
     [FullDevice EXCEPT !.permission = StringUnknown],
     [FullDevice EXCEPT !.permission = StringNull]}

\* cmd elements: "ls", a"b and a\
CmdElements ==
    {StringValue(<<"l", "s">>), StringValue(<<"a", DQ, "b">>), StringValue(<<"a", BS>>)}

EnvMaps == {MapNull, MapValue({}), MapValue({<<"TZ", "UTC">>})}

RestartPolicies ==
    {ObjectNull,
     ObjectValue([name |-> StringValue("always"), maximumretrycount |-> Int32Value(0)]),
     ObjectValue([name |-> StringValue("onFailure"), maximumretrycount |-> Int32Unknown])}

Cpupins ==
    {ObjectNull,
     ObjectValue([cpuids |-> StringValue("0,1"), type |-> StringValue("exclusive")]),
     ObjectValue([cpuids |-> StringValue("0,1"), type |-> StringNull])}

MapPlans ==
    {[BaseContainerPlan EXCEPT !.portbindings = ListValue(l)] :
        l \in SeqsUpTo(PortBindingEntries, MaxList)}
    \cup {[BaseContainerPlan EXCEPT !.volumes = ListValue(l)] :
            l \in SeqsUpTo(VolumeEntries, MaxList)}
    \cup {[BaseContainerPlan EXCEPT !.devices = ListValue(l)] :
            l \in SeqsUpTo(DeviceEntries, MaxList)}
    \cup {[BaseContainerPlan EXCEPT !.cmd = ListValue(l)] :
            l \in SeqsUpTo(CmdElements, MaxList)}
    \cup {[BaseContainerPlan EXCEPT !.entrypoint = ListValue(l), !.dns = ListValue(l)] :
            l \in SeqsUpTo({StringValue(<<"l", "s">>)}, MaxList)}
    \cup {[BaseContainerPlan EXCEPT !.env = m, !.labels = m] : m \in EnvMaps}
    \cup {[BaseContainerPlan EXCEPT !.restartpolicy = o] : o \in RestartPolicies}
    \cup {[BaseContainerPlan EXCEPT !.cpupin = o] : o \in Cpupins}
    \cup {[BaseContainerPlan EXCEPT !.hostname = StringValue("web1"),
                                    !.ipaddress = StringValue("10.0.3.50"),
                                    !.tty = BoolValue(b), !.privileged = BoolValue(~b)] :
            b \in BOOLEAN}

MapInit ==
    /\ cState = Absent(ContainerSpecModel)
    /\ aState = Absent(AppSpecModel)
    /\ cRemote = NoContainer
    /\ aRemote = NoApp
    /\ diags = <<>>
    /\ calls = <<>>
    /\ \E plan \in MapPlans :
          op = [name |-> "Plan", kind |-> "map", plan |-> plan, ok |-> TRUE,
                err |-> NoError, data |-> NoData]
    /\ crashed = FALSE
    /\ hist = [cRemoveAnon |-> FALSE, aRemoveAnon |-> FALSE]

\* ReadStateOrPlan applied to the plan
MapReadStateOrPlan ==
    /\ op.kind = "map" /\ op.name = "Plan"
    /\ LET newContainer == ReadStateOrPlan(op.plan) IN
       /\ calls' = <<[call |-> "CreateContainer", spec |-> newContainer.spec]>>
       /\ diags' = newContainer.diags
    /\ op' = [op EXCEPT !.name = "Request"]
    /\ UNCHANGED <<cState, aState, cRemote, aRemote, crashed, hist>>

\* The server answers with the fields of the request, an ID, a status and
\* the one network the request names.
MapEcho ==
    /\ op.kind = "map" /\ op.name = "Request"
    /\ \E id \in ServerIDs, st \in ServerStatuses, ip \in ServerIPs :
          op' = [op EXCEPT !.name = "Response",
                           !.data = ContainerData(calls[1].spec, id, st, 1, ip)]
    /\ UNCHANGED <<cState, aState, cRemote, aRemote, diags, calls, crashed, hist>>

\* WriteState applied to the response
MapWriteState ==
    /\ op.kind = "map" /\ op.name = "Response"
    /\ \E now \in Times :
          LET w == WriteState(op.data, now) IN
          /\ cState' = Present(w.state)
          /\ diags' = diags \o w.diags
          /\ crashed' = w.panic
    /\ op' = [op EXCEPT !.name = "State"]
    /\ UNCHANGED <<aState, cRemote, aRemote, calls, hist>>

MapNext == MapReadStateOrPlan \/ MapEcho \/ MapWriteState

SpecMap == MapInit /\ [][MapNext]_vars

(***************************************************************************)
(* The compose specification: validateYAML and ReadState applied to every  *)
(* compose text over two service names.                                    *)
(***************************************************************************)
ServiceSets == SUBSET {ServiceNames[i] : i \in 1..Len(ServiceNames)}

ServiceMaps ==
    UNION {[names -> [image : {"", "nginx"}, context : {"", "."}]] : names \in ServiceSets}

ComposeTexts ==
    {ComposeText(p, v, m, x) :
        <<p, v, m, x>> \in BOOLEAN \X {"", "3"} \X ServiceMaps \X BOOLEAN}

YamlInit ==
    /\ cState = Absent(ContainerSpecModel)
    /\ aState = Absent(AppSpecModel)
    /\ cRemote = NoContainer
    /\ aRemote = NoApp
    /\ diags = <<>>
    /\ calls = <<>>
    /\ \E text \in ComposeTexts :
          op = [name |-> "Text", kind |-> "yaml",
                plan |-> [BaseAppPlan EXCEPT !.yml = YmlValue(text)], ok |-> TRUE,
                err |-> NoError, data |-> NoData]
    /\ crashed = FALSE
    /\ hist = [cRemoveAnon |-> FALSE, aRemoveAnon |-> FALSE]

\* validateYAML applied to the text of the plan
YamlValidate ==
    /\ op.kind = "yaml" /\ op.name = "Text"
    /\ \E v \in validateYAML(op.plan.yml.val) :
          op' = [op EXCEPT !.name = "Validated", !.ok = (v.err = NoError),
                           !.err = v.err, !.data = v.yml]
    /\ UNCHANGED <<cState, aState, cRemote, aRemote, diags, calls, crashed, hist>>

\* ReadState applied to the plan
YamlReadState ==
    /\ op.kind = "yaml" /\ op.name = "Validated"
    /\ \E newAppPlan \in ReadState(op.plan) :
          /\ calls' = IF HasError(newAppPlan.diags) THEN <<>>
                      ELSE <<[call |-> "CreateApplication", req |-> newAppPlan.req]>>
          /\ diags' = newAppPlan.diags
    /\ op' = [op EXCEPT !.name = "Request"]
    /\ UNCHANGED <<cState, aState, cRemote, aRemote, crashed, hist>>

YamlNext == YamlValidate \/ YamlReadState

SpecYaml == YamlInit /\ [][YamlNext]_vars

(***************************************************************************)
(* The replacement specification: how the host runtime applies a change of *)
(* configuration.  The schemas tag attributes with the RequiresReplace     *)
(* plan modifier; the host replaces the resource (Delete, then Create)     *)
(* when a changed attribute carries the tag, and calls Update otherwise.   *)
(***************************************************************************)
\* The attributes of the container schema that a configuration can set.
ContainerAttributes ==
    {"status", "removeanonvolumes", "ipaddress", "type", "name", "image",
     "portbindings", "restartpolicy", "autoremove", "cmd", "entrypoint", "tty",
     "openstdin", "network", "networktype", "hostname", "dns", "env", "labels",
     "volumes", "runtime", "privileged", "devices", "cpupin"}

\* ... and those with stringplanmodifier.RequiresReplace().
ContainerRequiresReplace == {"type", "image", "network", "networktype"}

\* The attributes of the application schema that a configuration can set.
AppAttributes ==
    {"name", "status", "yml", "removeanonvolumes", "default_url", "cpu_limit",
     "mem_limit", "mem_reservation"}

AppRequiresReplace ==
    {"name", "status", "yml", "removeanonvolumes", "default_url", "cpu_limit",
     "mem_limit", "mem_reservation"}

SchemaAttributes(kind) ==
    IF kind = "container" THEN ContainerAttributes ELSE AppAttributes

RequiresReplace(kind) ==
    IF kind = "container" THEN ContainerRequiresReplace ELSE AppRequiresReplace

\* The handlers the host calls for a set of changed attributes.
PlannedHandlers(kind, changed) ==
    IF changed \cap RequiresReplace(kind) # {} THEN <<"Delete", "Create">>
    ELSE <<"Update">>

ChangeSets(kind) ==
    {c \in SUBSET SchemaAttributes(kind) : Cardinality(c) \in 1..MaxChanged}

QuietInit ==
    /\ cState = Absent(ContainerSpecModel)
    /\ aState = Absent(AppSpecModel)
    /\ cRemote = NoContainer
    /\ aRemote = NoApp
    /\ diags = <<>>
    /\ calls = <<>>
    /\ crashed = FALSE
    /\ hist = [cRemoveAnon |-> FALSE, aRemoveAnon |-> FALSE]

PlanInit ==
    /\ QuietInit
    /\ \E kind \in {"container", "app"} : \E changed \in ChangeSets(kind) :
          op = [name |-> "Changed", kind |-> kind, plan |-> changed, ok |-> TRUE,
                err |-> NoError, data |-> NoData]

\* The host plans the change from the schema's plan modifiers.
HostPlan ==
    /\ op.name = "Changed"
    /\ op' = [op EXCEPT !.name = "Planned",
                        !.data = PlannedHandlers(op.kind, op.plan)]
    /\ UNCHANGED <<cState, aState, cRemote, aRemote, diags, calls, crashed, hist>>

\* The host calls the planned handlers in order.
HostApply ==
    /\ op.name = "Planned"
    /\ Len(calls) < Len(op.data)
    /\ calls' = Append(calls, [call |-> op.data[Len(calls) + 1], kind |-> op.kind])
    /\ UNCHANGED <<cState, aState, cRemote, aRemote, diags, op, crashed, hist>>

PlanNext == HostPlan \/ HostApply

SpecPlan == PlanInit /\ [][PlanNext]_vars

(***************************************************************************)
(* The provider specification: Configure resolves host, username and       *)
(* password from the configuration block and the environment and makes     *)
(* the API client.                                                         *)
(***************************************************************************)
ConfigAttributes == <<"host", "username", "password">>

ConfigValues == {StringNull, StringUnknown, StringValue(""), StringValue("from-config")}

\* os.Getenv gives "" for a variable that is not set.
EnvValues == {"", "from-env"}

ProviderConfigs == [host : ConfigValues, username : ConfigValues, password : ConfigValues]
Environments == [host : EnvValues, username : EnvValues, password : EnvValues]

AttributeError(summary, attribute) ==
    ErrorDiag(summary, "", [kind |-> "attribute", path |-> attribute])

UnknownSummary(a) ==
    IF a = "host" THEN "Unknown qnap API Host"
    ELSE IF a = "username" THEN "Unknown qnap API Username"
    ELSE "Unknown qnap API Password"

MissingSummary(a) ==
    IF a = "host" THEN "Missing qnap API Host"
    ELSE IF a = "username" THEN "Missing qnap API Username"
    ELSE "Missing qnap API Password"

UnknownErrors(config) ==
    MapSeq(LAMBDA a : AttributeError(UnknownSummary(a), a),
           SelectSeq(ConfigAttributes, LAMBDA a : IsUnknown(config[a])))

\* A resolution in which a set environment variable wins over the block.
ResolveEnvFirst(config, env) ==
    [a \in DOMAIN config |-> IF env[a] # "" THEN env[a] ELSE ValueString(config[a])]

\* The environment value, overridden by the configuration value if set.
Resolve(config, env) ==
    [a \in DOMAIN config |-> IF ~IsNull(config[a]) THEN ValueString(config[a]) ELSE env[a]]

\* A check that looks at the host only.
MissingErrorsHostOnly(resolved) ==
    IF resolved.host = "" THEN <<AttributeError(MissingSummary("host"), "host")>> ELSE <<>>

MissingErrors(resolved) ==
    MapSeq(LAMBDA a : AttributeError(MissingSummary(a), a),
           SelectSeq(ConfigAttributes, LAMBDA a : resolved[a] = ""))

NoClient == [made |-> FALSE, resolved |-> NoData]

\* qnap.NewClient: a client, or an error
NewClientResults == {[ok |-> TRUE, err |-> NoError],
                     [ok |-> FALSE, err |-> ClientError("other", 0, "none", 0, <<>>)]}

ConfigureInit ==
    /\ QuietInit
    /\ \E config \in ProviderConfigs, env \in Environments :
          op = [name |-> "Configured", kind |-> "provider",
                plan |-> [config |-> config, env |-> env], ok |-> TRUE,
                err |-> NoError, data |-> NoClient]

\* qnapProvider.Configure; op.data is the client handed to the resources
\* and data sources, with the values that were resolved.
Configure ==
    /\ op.name = "Configured"
    /\ LET config == op.plan.config
           resolved == Resolve(config, op.plan.env)
       IN
       IF UnknownErrors(config) # <<>>
       THEN /\ diags' = UnknownErrors(config)
            /\ calls' = <<>>
            /\ op' = [op EXCEPT !.name = "Configure", !.ok = FALSE]
       ELSE IF MissingErrors(resolved) # <<>>
       THEN /\ diags' = MissingErrors(resolved)
            /\ calls' = <<>>
            /\ op' = [op EXCEPT !.name = "Configure", !.ok = FALSE,
                                !.data = [made |-> FALSE, resolved |-> resolved]]
       ELSE \E res \in NewClientResults :
            /\ calls' = <<[call |-> "NewClient", host |-> resolved.host,
                           username |-> resolved.username,
                           password |-> resolved.password]>>
            /\ diags' = IF res.ok THEN <<>>
                        ELSE <<ErrorDiag("Unable to Create qnap API Client",
                                         "qnap Client Error: ", res.err)>>
            /\ op' = [op EXCEPT !.name = "Configure", !.ok = res.ok, !.err = res.err,
                                !.data = [made |-> res.ok, resolved |-> resolved]]
    /\ UNCHANGED <<cState, aState, cRemote, aRemote, crashed, hist>>

ConfigureNext == Configure

SpecConfigure == ConfigureInit /\ [][ConfigureNext]_vars

(***************************************************************************)
(* The block specification: the container is created from plans whose      *)
(* restart policy and cpu pin blocks are absent, complete or partial, and  *)
(* destroyed again.                                                        *)
(***************************************************************************)
BlockPlans ==
    {[BaseContainerPlan EXCEPT !.restartpolicy = r, !.cpupin = c] :
        <<r, c>> \in RestartPolicies \X Cpupins}

BlockNext ==
    \/ \E plan \in BlockPlans : ContainerCreate(plan)
    \/ ContainerDelete

SpecBlocks == Init /\ [][BlockNext]_vars

(***************************************************************************)
(* The update specification: the Update handlers of the legacy container   *)
(* resource, of the legacy application resource and of the current         *)
(* application resource.  The legacy handlers build the request and map    *)
(* the response inline; their model has no ipaddress and no networks, and  *)
(* their port bindings have a containerip.  The legacy application         *)
(* resource is the legacy container resource under other names, without    *)
(* the start / stop calls.                                                 *)
(***************************************************************************)
LegacyModel(plan) == [f \in DOMAIN plan \ {"ipaddress", "networks"} |-> plan[f]]

LegacyPortBindingSkip(portBinding) ==
    \/ IsUnknown(portBinding.host) \/ IsNull(portBinding.host)
    \/ IsUnknown(portBinding.container) \/ IsNull(portBinding.container)
    \/ IsUnknown(portBinding.protocol) \/ IsNull(portBinding.protocol)
    \/ IsUnknown(portBinding.hostip) \/ IsNull(portBinding.hostip)
    \/ IsUnknown(portBinding.containerip) \/ IsNull(portBinding.containerip)

LegacyRequestPortBinding(portBinding) ==
    [host |-> ValueInt32(portBinding.host), container |-> ValueInt32(portBinding.container),
     protocol |-> ValueString(portBinding.protocol),
     hostip |-> ValueString(portBinding.hostip),
     containerip |-> ValueString(portBinding.containerip)]

LegacyStatePortBinding(portBinding) ==
    [host |-> Int32Value(portBinding.host), container |-> Int32Value(portBinding.container),
     protocol |-> StringValue(portBinding.protocol),
     hostip |-> StringValue(portBinding.hostip),
     containerip |-> StringValue(portBinding.containerip)]

\* A request that is not marked as a recreate.
LegacyOperationCreate == ""

\* operation := types.StringValue("recreate")
LegacyOperation == "recreate"

\* newContainer / newApp of the legacy Update
LegacyRequest(plan) ==
    [type |-> ValueString(plan.type),
     name |-> ValueString(plan.name),
     image |-> ValueString(plan.image),
     autoremove |-> ValueBool(plan.autoremove),
     tty |-> ValueBool(plan.tty),
     openstdin |-> ValueBool(plan.openstdin),
     network |-> ValueString(plan.network),
     networktype |-> ValueString(plan.networktype),
     hostname |-> ValueString(plan.hostname),
     runtime |-> ValueString(plan.runtime),
     privileged |-> ValueBool(plan.privileged),
     operation |-> LegacyOperation,
     devices |-> RequestDevices(plan),
     volumes |-> RequestVolumes(plan),
     portbindings |->
        MapSeq(LegacyRequestPortBinding,
               SelectSeq(Elements(plan.portbindings), LAMBDA b : ~LegacyPortBindingSkip(b))),
     restartpolicy |-> RequestRestartPolicy(plan),
     cpupin |-> RequestCpupin(plan),
     env |-> ElementsAsMap(plan.env, {}),
     labels |-> ElementsAsMap(plan.labels, {}),
     cmd |-> MapSeq(ItemToRequest, Elements(plan.cmd)),
     entrypoint |-> MapSeq(ItemToRequest, Elements(plan.entrypoint)),
     dns |-> MapSeq(ItemToRequest, Elements(plan.dns))]

\* The warnings the legacy Update adds while it builds the request.
LegacyWarnings(plan) ==
    DeviceWarnings(plan) \o VolumeWarnings(plan)
    \o MapSeq(LAMBDA b : WarningDiag("Port binding attributes are unknown or null"),
               SelectSeq(Elements(plan.portbindings), LegacyPortBindingSkip))
    \o (IF RestartPolicySkip(plan)
        THEN <<WarningDiag("Port binding attributes are unknown or null")>> ELSE <<>>)
    \o (IF CpupinSkip(plan)
        THEN <<WarningDiag("Port binding attributes are unknown or null")>> ELSE <<>>)

\* The server's answer to a legacy request: the fields of the request, an
\* ID and a status.
LegacyData(req, id, status) ==
    [id |-> id, status |-> status, autoremove |-> req.autoremove, tty |-> req.tty,
     openstdin |-> req.openstdin, hostname |-> req.hostname, runtime |-> req.runtime,
     privileged |-> req.privileged,
     cmd |-> [isNil |-> req.cmd = <<>>, elems |-> req.cmd],
     entrypoint |-> req.entrypoint, dns |-> req.dns, env |-> req.env,
     labels |-> req.labels, devices |-> req.devices, volumes |-> req.volumes,
     portbindings |-> req.portbindings, restartpolicy |-> req.restartpolicy,
     cpupin |-> req.cpupin]

\* r.client.CreateContainer / r.client.CreateApp of the legacy Update
LegacyCreateResults(req, errors) ==
    [ok : {FALSE}, err : errors, data : {NoData}]
    \cup {[ok |-> TRUE, err |-> NoError, data |-> LegacyData(req, id, st)] :
            <<id, st>> \in ServerIDs \X ServerStatuses}

\* r.client.StartContainer / r.client.StopContainer
StartStopResults ==
    {[ok |-> TRUE, err |-> NoError]} \cup [ok : {FALSE}, err : ContainerErrors]

\* The plan with its computed attributes overwritten from the response, as
\* the legacy Update hands it to resp.State.Set.
LegacyState(plan, data, now) ==
    [LegacyModel(plan) EXCEPT
        !.last_updated = Int32Value(now),
        !.id = StringValue(data.id),
        !.autoremove = BoolValue(data.autoremove),
        !.cmd = ListValueFrom(data.cmd),
        !.entrypoint = ListValue(MapSeq(StringValue, data.entrypoint)),
        !.dns = ListValue(MapSeq(StringValue, data.dns)),
        !.tty = BoolValue(data.tty),
        !.openstdin = BoolValue(data.openstdin),
        !.hostname = StringValue(data.hostname),
        !.env = MapValue(data.env),
        !.labels = MapValue(data.labels),
        !.volumes = ListValue(MapSeq(StateVolume, data.volumes)),
        !.devices = ListValue(MapSeq(StateDevice, data.devices)),
        !.portbindings = ListValue(MapSeq(LegacyStatePortBinding, data.portbindings)),
        !.restartpolicy =
            ObjectValue([name |-> StringValue(data.restartpolicy.name),
                         maximumretrycount |->
                             Int32Value(data.restartpolicy.maximumretrycount)]),
        !.cpupin =
            ObjectValue([cpuids |-> StringValue(data.cpupin.cpuids),
                         type |-> StringValue(data.cpupin.type)]),
        !.runtime = StringValue(data.runtime),
        !.privileged = BoolValue(data.privileged)]

\* The call that brings the recreated container to the planned status.
LegacyReconcile(plan, data) ==
    IF ValueString(plan.status) = "running" /\ data.status # "running"
    THEN "StartContainer"
    ELSE IF ValueString(plan.status) = "stopped" /\ data.status # "stopped"
    THEN "StopContainer"
    ELSE "none"

LegacyReconcileError(call, err) ==
    ErrorDiag("Error change container state to match requested state",
              IF call = "StartContainer"
              THEN "Could not start container, unexpected error: "
              ELSE "Could not stop container, unexpected error: ", err)

\* Update of the legacy container resource
LegacyContainerUpdate(plan) ==
    /\ cState.present
    /\ LET req == LegacyRequest(plan)
           create == [call |-> "CreateContainer", spec |-> req]
       IN \E res \in LegacyCreateResults(req, ContainerErrors) : \E now \in TimesOf(res) :
          /\ op' = [name |-> "Update", kind |-> "legacy container", plan |-> plan,
                    ok |-> res.ok, err |-> res.err, data |-> res.data]
          /\ IF ~res.ok
             THEN /\ calls' = <<create>>
                  /\ diags' = LegacyWarnings(plan) \o <<ContainerCreateError(res.err)>>
                  /\ UNCHANGED <<cState, cRemote>>
             ELSE /\ cRemote' = [exists |-> TRUE, id |-> res.data.id, spec |-> req]
                  /\ IF LegacyReconcile(plan, res.data) = "none"
                     THEN /\ calls' = <<create>>
                          /\ diags' = LegacyWarnings(plan)
                          /\ cState' = Present(LegacyState(plan, res.data, now))
                     ELSE \E r \in StartStopResults :
                          /\ calls' = <<create,
                                        [call |-> LegacyReconcile(plan, res.data),
                                         id |-> res.data.id,
                                         type |-> ValueString(plan.type)]>>
                          /\ IF r.ok
                             THEN /\ diags' = LegacyWarnings(plan)
                                  /\ cState' = Present(LegacyState(plan, res.data, now))
                             ELSE /\ diags' = LegacyWarnings(plan) \o
                                        <<LegacyReconcileError(
                                              LegacyReconcile(plan, res.data), r.err)>>
                                  /\ UNCHANGED cState
    /\ crashed' = FALSE
    /\ UNCHANGED <<aState, aRemote, hist>>

\* The persisted application state is the legacy resource's.
LegacyAppInstalled == aState.present /\ "image" \in DOMAIN aState.val

\* Update of the legacy application resource
LegacyAppUpdate(plan) ==
    /\ LegacyAppInstalled
    /\ LET req == LegacyRequest(plan) IN
       \E res \in LegacyCreateResults(req, AppErrors) : \E now \in TimesOf(res) :
          /\ op' = [name |-> "Update", kind |-> "legacy app", plan |-> plan,
                    ok |-> res.ok, err |-> res.err, data |-> res.data]
          /\ calls' = <<[call |-> "CreateApp", spec |-> req]>>
          /\ IF ~res.ok
             THEN /\ diags' = LegacyWarnings(plan) \o <<AppCreateError(res.err)>>
                  /\ UNCHANGED <<aState, aRemote>>
             ELSE /\ diags' = LegacyWarnings(plan)
                  /\ aRemote' = [exists |-> TRUE, name |-> req.name, req |-> req]
                  /\ aState' = Present(LegacyState(plan, res.data, now))
    /\ crashed' = FALSE
    /\ UNCHANGED <<cState, cRemote, hist>>

LegacyFullPortBinding ==
    [host |-> Int32Value(49123), container |-> Int32Value(80),
     protocol |-> StringValue("TCP"), hostip |-> StringValue("0.0.0.0"),
     containerip |-> StringValue("10.0.3.50")]

LegacyPlans ==
    {[BaseContainerPlan EXCEPT !.status = StringValue(st), !.restartpolicy = r] :
        <<st, r>> \in {"running", "stopped"} \X RestartPolicies}
    \cup {[BaseContainerPlan EXCEPT
              !.portbindings =
                  ListValue(<<[LegacyFullPortBinding EXCEPT !.containerip = StringUnknown],
                              LegacyFullPortBinding>>)]}

\* The state a legacy resource of the base plan has after it was created.
LegacyCreated ==
    {LegacyState(BaseContainerPlan,
                 LegacyData(LegacyRequest(BaseContainerPlan), id, "running"), 1) :
        id \in ServerIDs}

\* The state the current application of the base plan has after Create.
AppCreated ==
    {AppCreateState(BaseAppPlan,
                    GetCurrentState(BaseAppPlan, AppData(n.req, "running"), 1).state) :
        n \in ReadState(BaseAppPlan)}

\* One resource exists: a legacy container, a legacy application or a
\* current application.
UpdateInit ==
    /\ \/ \E state \in LegacyCreated :
             /\ cState = Present(state)
             /\ cRemote = [exists |-> TRUE, id |-> ValueString(state.id),
                           spec |-> LegacyRequest(BaseContainerPlan)]
             /\ aState = Absent(AppSpecModel) /\ aRemote = NoApp
       \/ \E state \in LegacyCreated :
             /\ cState = Absent(ContainerSpecModel) /\ cRemote = NoContainer
             /\ aState = Present(state)
             /\ aRemote = [exists |-> TRUE, name |-> ValueString(state.name),
                           req |-> LegacyRequest(BaseContainerPlan)]
       \/ \E state \in AppCreated, n \in ReadState(BaseAppPlan) :
             /\ cState = Absent(ContainerSpecModel) /\ cRemote = NoContainer
             /\ aState = Present(state)
             /\ aRemote = [exists |-> TRUE, name |-> n.req.name, req |-> n.req]
    /\ diags = <<>>
    /\ calls = <<>>
    /\ op = [name |-> "Init", kind |-> "none", plan |-> NoPlan, ok |-> TRUE,
             err |-> NoError, data |-> NoData]
    /\ crashed = FALSE
    /\ hist = [cRemoveAnon |-> FALSE, aRemoveAnon |-> FALSE]

\* Update of the current application resource
CurrentAppUpdate(plan) ==
    /\ ~LegacyAppInstalled
    /\ AppUpdate(plan)

UpdateNext ==
    \/ \E plan \in LegacyPlans : LegacyContainerUpdate(plan)
    \/ \E plan \in LegacyPlans : LegacyAppUpdate(plan)
    \/ \E plan \in AppPlans : CurrentAppUpdate(plan)

SpecUpdate == UpdateInit /\ [][UpdateNext]_vars

(***************************************************************************)
(* The classification specification: isNotFound and isAppNotFound applied  *)
(* to error texts of every shape.                                          *)
(***************************************************************************)
Messages == SeqsUpTo(MsgTokens, MaxMsg)

\* Error texts: with or without the "status: <n>," head, with no "body: {"
\* marker, with a body that is JSON or is not.
ClassifyErrors ==
    {ClientError(h, st, b, c, m) :
        <<h, st, b, c, m>> \in
            {"status", "other"} \X {404, 500} \X {"json", "none", "text"}
            \X {1009, 1000} \X Messages}

ClassifyInit ==
    /\ QuietInit
    /\ \E e \in ClassifyErrors :
          op = [name |-> "Error", kind |-> "none", plan |-> NoPlan, ok |-> FALSE,
                err |-> e, data |-> NoData]

\* isNotFound applied to the error
ClassifyContainer ==
    /\ op.name = "Error"
    /\ op' = [op EXCEPT !.name = "Classified", !.kind = "container",
                        !.data = isNotFound(op.err)]
    /\ crashed' = (isNotFound(op.err) = "panic")
    /\ UNCHANGED <<cState, aState, cRemote, aRemote, diags, calls, hist>>

\* isAppNotFound applied to the error
ClassifyApp ==
    /\ op.name = "Error"
    /\ op' = [op EXCEPT !.name = "Classified", !.kind = "app",
                        !.data = isAppNotFound(op.err)]
    /\ UNCHANGED <<cState, aState, cRemote, aRemote, diags, calls, crashed, hist>>

ClassifyNext == ClassifyContainer \/ ClassifyApp

SpecClassify == ClassifyInit /\ [][ClassifyNext]_vars

(***************************************************************************)
(* The container specification: the lifecycle of one container alone, with *)
(* plans that leave the IP address to the server and a plan that sets it.  *)
(***************************************************************************)
StaticIPPlans ==
    ContainerPlans
    \cup {[BaseContainerPlan EXCEPT !.ipaddress = StringValue("10.0.3.50"),
                                    !.status = StringValue(st)] :
            st \in {"running", "stopped"}}

ContainerNext ==
    \/ \E plan \in StaticIPPlans : ContainerCreate(plan)
    \/ ContainerRead
    \/ \E plan \in StaticIPPlans : ContainerUpdate(plan)
    \/ ContainerDelete

SpecContainer == Init /\ [][ContainerNext]_vars

(***************************************************************************)
(* The response specification: WriteState applied to server responses      *)
(* with no, one or several networks and with lists of port bindings,       *)
(* volumes and devices.                                                    *)
(***************************************************************************)
ResponseNetworks ==
    {[id |-> "c7d58f09", name |-> "bridge", ipaddress |-> "10.0.3.13",
      displayname |-> "Container Network", macaddress |-> "02:42:0a:00:03:0d",
      gateway |-> "10.0.3.1", networktype |-> "default", isstaticip |-> FALSE],
     [id |-> "9a1e44b0", name |-> "eth0", ipaddress |-> "192.168.1.50",
      displayname |-> "Adapter 1", macaddress |-> "02:42:c0:a8:01:32",
      gateway |-> "192.168.1.1", networktype |-> "bridge", isstaticip |-> TRUE]}

ResponsePortBindings ==
    {[host |-> 49123, container |-> 80, protocol |-> "tcp", hostip |-> "0.0.0.0"],
     [host |-> 49124, container |-> 53, protocol |-> "UDP", hostip |-> "0.0.0.0"]}

ResponseVolumes ==
    {[type |-> "volume", name |-> "volume_1", container |-> "",
      source |-> "/share/volume_1", destination |-> "/config",
      permission |-> "writable"]}

ResponseDevices == {[name |-> "/dev/fuse", permission |-> "rw"]}

\* The responses: the echo of the base plan's request with the lists varied.
Responses ==
    {[ContainerData(ReadStateOrPlan(BaseContainerPlan).spec, id, st, 0, "") EXCEPT
        !.networks = ns, !.portbindings = ps, !.volumes = vs, !.devices = ds] :
        <<id, st, ns, ps, vs, ds>> \in
            ServerIDs \X ServerStatuses \X SeqsUpTo(ResponseNetworks, MaxNets)
            \X SeqsUpTo(ResponsePortBindings, MaxList)
            \X SeqsUpTo(ResponseVolumes, 1) \X SeqsUpTo(ResponseDevices, 1)}

ResponseInit ==
    /\ QuietInit
    /\ \E data \in Responses :
          op = [name |-> "Response", kind |-> "response", plan |-> NoPlan, ok |-> TRUE,
                err |-> NoError, data |-> data]

\* WriteState applied to the response
ResponseWriteState ==
    /\ op.kind = "response" /\ op.name = "Response"
    /\ \E now \in Times :
          LET w == WriteState(op.data, now) IN
          /\ cState' = IF w.panic THEN cState ELSE Present(w.state)
          /\ diags' = w.diags
          /\ crashed' = w.panic
    /\ op' = [op EXCEPT !.name = "State"]
    /\ UNCHANGED <<aState, cRemote, aRemote, calls, hist>>

ResponseNext == ResponseWriteState

SpecResponse == ResponseInit /\ [][ResponseNext]_vars

(***************************************************************************)
(* Properties of the lifecycle specification.                              *)
(***************************************************************************)
Accepted(o) ==
    /\ ~o.ok
    /\ o.err # NoError
    /\ \/ o.kind = "container" /\ isNotFound(o.err) = "true"
       \/ o.kind = "app" /\ isAppNotFound(o.err) = "true"

\* C1: after a Read whose inspect error the not-found classifier accepts,
\* the resource is absent from persisted state and no error diagnostic is
\* recorded; absence is the condition under which Create runs next.  Holds
\* for the container and for the application.
C1_ReadNotFoundRemoves ==
    (op.name = "Read" /\ Accepted(op)) =>
        /\ ~HasError(diags)
        /\ op.kind = "container" => ~cState.present
        /\ op.kind = "app" => ~aState.present
        /\ ~crashed

C1_Witness ==
    /\ op.name = "Read" /\ op.kind = "container" /\ Accepted(op)
    /\ ~cState.present /\ cRemote.exists

\* C2: a Read whose inspect error the not-found classifier does not accept
\* records an error diagnostic that contains the original error text and
\* leaves persisted state exactly as it was.
C2_ReadErrorRecorded ==
    [][(op'.name = "Read" /\ ~op'.ok /\ ~Accepted(op')) =>
          /\ \E i \in 1..Len(diags') :
                diags'[i].sev = "error" /\ diags'[i].text = op'.err
          /\ cState' = cState
          /\ aState' = aState]_vars

\* C3: when the remote create call fails, Create persists no state and
\* records exactly one error diagnostic, whose detail is a short prefix
\* followed by the original error text.  Holds for the container and for
\* the application.
C3_CreateFailure ==
    (op.name = "Create" /\ op.err # NoError) =>
        /\ op.kind = "container" => ~cState.present
        /\ op.kind = "app" => ~aState.present
        /\ ErrorCount(diags) = 1
        /\ SelectSev(diags, "error")[1].prefix # ""
        /\ SelectSev(diags, "error")[1].text = op.err

C3_Witness ==
    /\ op.name = "Create" /\ op.kind = "container" /\ op.err # NoError
    /\ Len(calls) = 1 /\ calls[1].call = "CreateContainer"
    /\ WarningCount(diags) = 1 /\ ErrorCount(diags) = 1

\* C4: from Create on, through any Reads and Updates, the persisted
\* removeanonvolumes is the one of the plan given to Create, and it is the
\* flag Delete passes to the remote delete call.
C4_DeleteFlag ==
    /\ cState.present => ValueBool(cState.val.removeanonvolumes) = hist.cRemoveAnon
    /\ (op.name = "Delete" /\ op.kind = "container") =>
          /\ Len(calls) = 1
          /\ calls[1].call = "DeleteContainer"
          /\ calls[1].removeAnonVolumes = hist.cRemoveAnon

C4_Witness ==
    /\ op.name = "Delete" /\ op.kind = "container" /\ op.ok
    /\ hist.cRemoveAnon /\ calls[1].removeAnonVolumes

CreateSucceeded(kind) ==
    op.name = "Create" /\ op.kind = kind /\ op.ok /\ ~crashed /\ ~HasError(diags)

\* C5: after a successful container Create the persisted name, image,
\* network, networktype, type, status and removeanonvolumes equal the
\* configuration, and the persisted id is the non-empty ID of the server.
C5_CreateStateEqualsConfig ==
    CreateSucceeded("container") =>
        /\ cState.present
        /\ \A f \in {"name", "image", "network", "networktype", "type", "status",
                      "removeanonvolumes"} : cState.val[f] = op.plan[f]
        /\ cState.val.id = StringValue(op.data.id)
        /\ op.data.id # ""

CallCount(c) == Len(SelectSeq(calls, LAMBDA x : x.call = c))

\* C6: during a container Create there is exactly one start call when the
\* planned status is "running" and the create response reports another
\* status, exactly one stop call when the planned status is "stopped" and
\* the response reports another, and neither call when they match.
C6_StartStopReconciliation ==
    (op.name = "Create" /\ op.kind = "container" /\ op.ok) =>
        LET planned == ValueString(op.plan.status)
            differs == planned # op.data.status
        IN /\ CallCount("StartContainer") =
                 (IF differs /\ planned = "running" THEN 1 ELSE 0)
           /\ CallCount("StopContainer") =
                 (IF differs /\ planned = "stopped" THEN 1 ELSE 0)

InvalidCompose(text) ==
    \/ ~text.parseable
    \/ text.version = ""
    \/ DOMAIN text.services = {}
    \/ \E n \in DOMAIN text.services :
          text.services[n].image = "" /\ text.services[n].context = ""

\* C9: when the compose document fails validation, the application Create
\* records an error that names the missing field or the offending service,
\* makes no remote create call and persists no state.
C9_InvalidComposeNoCreate ==
    (op.name = "Create" /\ op.kind = "app" /\ InvalidCompose(op.plan.yml.val)) =>
        LET text == op.plan.yml.val IN
        /\ calls = <<>>
        /\ ~aState.present
        /\ ErrorCount(diags) = 1
        /\ LET e == SelectSev(diags, "error")[1].text IN
           /\ e.kind = "yaml"
           /\ (text.parseable /\ text.version = "") =>
                 e.what = "missing required field: version"
           /\ (text.parseable /\ text.version # "" /\ DOMAIN text.services # {}) =>
                 /\ e.service \in DOMAIN text.services
                 /\ text.services[e.service].image = ""
                 /\ text.services[e.service].context = ""

C9_Witness ==
    /\ op.name = "Create" /\ op.kind = "app"
    /\ op.plan.yml.val.parseable /\ op.plan.yml.val.version = ""
    /\ ErrorCount(diags) = 1 /\ calls = <<>> /\ ~aState.present

(***************************************************************************)
(* Properties of the mapping and compose specifications.                   *)
(***************************************************************************)
FullEntry(e) == \A f \in DOMAIN e : IsKnown(e[f])
AllFull(list) == \A i \in 1..Len(list.val) : FullEntry(list.val[i])
AllKnown(list) == \A i \in 1..Len(list.val) : IsKnown(list.val[i])
PartialCount(list) == Len(SelectSeq(Elements(list), LAMBDA e : ~FullEntry(e)))

\* C7: after the round trip plan -> request -> echoed response -> state,
\* every attribute the plan sets and the request carries has the identical
\* value in the state.  A list or map counts as set when it is known and
\* not empty and each of its elements is set in full.
C7_RoundTrip ==
    (op.kind = "map" /\ op.name = "State") =>
        LET plan == op.plan
            state == cState.val
        IN /\ ~crashed
           /\ \A f \in {"type", "name", "image", "autoremove", "tty", "openstdin",
                         "networktype", "hostname", "runtime", "privileged",
                         "ipaddress"} :
                 IsKnown(plan[f]) => state[f] = plan[f]
           /\ \A f \in {"env", "labels"} :
                 (IsKnown(plan[f]) /\ plan[f].val # {}) => state[f] = plan[f]
           /\ \A f \in {"cmd", "entrypoint", "dns"} :
                 (IsKnown(plan[f]) /\ plan[f].val # <<>> /\ AllKnown(plan[f]))
                     => state[f] = plan[f]
           /\ \A f \in {"devices", "volumes", "portbindings"} :
                 (IsKnown(plan[f]) /\ plan[f].val # <<>> /\ AllFull(plan[f]))
                     => state[f] = plan[f]
           /\ \A f \in {"restartpolicy", "cpupin"} :
                 (IsKnown(plan[f]) /\ FullEntry(plan[f].val)) => state[f] = plan[f]

\* C8: in the request made from a plan, the port bindings, volumes and
\* devices are exactly the plan's entries that have every sub-field set, in
\* plan order; each other entry adds one warning; no error is recorded and
\* the request is handed to the remote create call.
C8_PartialEntriesSkipped ==
    (op.kind = "map" /\ op.name # "Plan") =>
        LET plan == op.plan
            spec == calls[1].spec
        IN /\ Len(calls) = 1 /\ calls[1].call = "CreateContainer"
           /\ spec.portbindings =
                 MapSeq(RequestPortBinding, SelectSeq(Elements(plan.portbindings), FullEntry))
           /\ spec.volumes =
                 MapSeq(RequestVolume, SelectSeq(Elements(plan.volumes), FullEntry))
           /\ spec.devices =
                 MapSeq(RequestDevice, SelectSeq(Elements(plan.devices), FullEntry))
           /\ ~HasError(diags)
           /\ WarningCount(diags) =
                 PartialCount(plan.portbindings) + PartialCount(plan.volumes)
                 + PartialCount(plan.devices)
                 + (IF RestartPolicySkip(plan) THEN 1 ELSE 0)
                 + (IF CpupinSkip(plan) THEN 1 ELSE 0)

Reserialized(text) == ComposeText(TRUE, text.version, text.services, FALSE)

\* C10: validateYAML accepts a parseable compose text exactly when its
\* version is non-empty, it has at least one service and every service has
\* an image or a build context; it then returns the re-serialized text,
\* and the create request carries that text, not the text of the plan.
C10_ValidateAndReserialize ==
    (op.kind = "yaml" /\ op.name # "Text" /\ op.plan.yml.val.parseable) =>
        LET text == op.plan.yml.val IN
        /\ op.ok <=> ~InvalidCompose(text)
        /\ op.ok => op.data = Reserialized(text)
        /\ (op.ok /\ op.name = "Request") =>
              /\ Len(calls) = 1
              /\ calls[1].req.yml = Reserialized(text)

C10_Witness ==
    /\ op.kind = "yaml" /\ op.name = "Request" /\ op.ok
    /\ op.plan.yml.val.extras
    /\ Len(calls) = 1
    /\ calls[1].req.yml # op.plan.yml.val

(***************************************************************************)
(* Update, replacement and resolution of unknown values.                   *)
(***************************************************************************)
\* C11: an Update of the container or of the application makes no remote
\* call and leaves persisted state and the remote object as they were; the
\* remote object changes only in a Create or a Delete.
C11_UpdateNoOp ==
    [][/\ (op'.name = "Update" /\ op'.kind \in {"container", "app"}) =>
            /\ calls' = <<>>
            /\ cState' = cState /\ aState' = aState
            /\ cRemote' = cRemote /\ aRemote' = aRemote
       /\ (cRemote' # cRemote \/ aRemote' # aRemote) =>
            op'.name \in {"Create", "Delete"}]_vars

C11_Witness ==
    /\ op.name = "Update" /\ op.kind = "container" /\ cState.present
    /\ op.plan.removeanonvolumes # cState.val.removeanonvolumes
    /\ cRemote.exists /\ calls = <<>>

IdentityFields == {"name"}

Handled(c) == \E i \in 1..Len(calls) : calls[i].call = c

\* C12: when the configuration changes the name of a container or of an
\* application, or an attribute tagged RequiresReplace, the host never
\* calls Update for it: it calls Delete and then Create.
C12_IdentityChangeReplaces ==
    (op.name = "Planned"
       /\ op.plan \cap (IdentityFields \cup RequiresReplace(op.kind)) # {}) =>
        /\ ~Handled("Update")
        /\ Len(calls) = Len(op.data) =>
              calls = <<[call |-> "Delete", kind |-> op.kind],
                        [call |-> "Create", kind |-> op.kind]>>

\* A value, and everything nested in it, is not unknown.
ResolvedFields(e) == \A g \in DOMAIN e : ~IsUnknown(e[g])
ResolvedList(l) == ~IsUnknown(l) /\ \A i \in 1..Len(l.val) : ResolvedFields(l.val[i])
ResolvedStrings(l) == ~IsUnknown(l) /\ \A i \in 1..Len(l.val) : ~IsUnknown(l.val[i])
ResolvedObject(o) == ~IsUnknown(o) /\ (IsKnown(o) => ResolvedFields(o.val))

ResolvedContainer(state) ==
    /\ \A f \in DOMAIN state : ~IsUnknown(state[f])
    /\ \A f \in {"devices", "volumes", "portbindings", "networks"} : ResolvedList(state[f])
    /\ \A f \in {"cmd", "entrypoint", "dns"} : ResolvedStrings(state[f])
    /\ \A f \in {"restartpolicy", "cpupin"} : ResolvedObject(state[f])

ResolvedApp(state) ==
    /\ \A f \in DOMAIN state : ~IsUnknown(state[f])
    /\ ResolvedList(state.containers)
    /\ ResolvedObject(state.default_url)

\* C13: a persisted state of a container or of an application holds no
\* unknown value, at any depth; and after a successful Create an attribute
\* that was unknown in the plan and that the server reports holds the
\* server's value.
C13_NoUnknownInState ==
    /\ cState.present => ResolvedContainer(cState.val)
    /\ aState.present => ResolvedApp(aState.val)
    /\ CreateSucceeded("container") =>
          /\ cState.present
          /\ \A f \in {"id", "hostname", "runtime", "autoremove", "tty", "openstdin",
                        "privileged"} :
                IsUnknown(op.plan[f]) =>
                    (IsKnown(cState.val[f]) /\ cState.val[f].val = op.data[f])
    /\ CreateSucceeded("app") =>
          /\ aState.present
          /\ \A f \in {"cpu_limit", "mem_limit", "mem_reservation"} :
                IsUnknown(op.plan[f]) =>
                    (IsKnown(aState.val[f]) /\ aState.val[f].val = op.data[f])

C13_Witness ==
    /\ CreateSucceeded("container") /\ cState.present
    /\ IsUnknown(op.plan.hostname) /\ IsUnknown(op.plan.portbindings)
    /\ IsKnown(cState.val.hostname) /\ IsKnown(cState.val.portbindings)

(***************************************************************************)
(* Properties of the provider specification.                               *)
(***************************************************************************)
ConfigDone == op.kind = "provider" /\ op.name = "Configure"

UnknownAttributes == {a \in DOMAIN op.plan.config : IsUnknown(op.plan.config[a])}

ExpectedValue(a) ==
    IF IsNull(op.plan.config[a]) THEN op.plan.env[a] ELSE op.plan.config[a].val

EmptyAttributes == {a \in DOMAIN op.plan.config : ExpectedValue(a) = ""}

ErrorPaths == {diags[i].text.path : i \in {j \in 1..Len(diags) : diags[j].sev = "error"}}

\* C14 as stated: the client is made and handed on only if the three
\* values are known and non-empty; otherwise there is one error for each
\* value that is unknown or empty after resolution, and no client and no call.
C14_OneErrorPerOffendingValue ==
    ConfigDone =>
        /\ op.data.made => (UnknownAttributes = {} /\ EmptyAttributes = {})
        /\ (UnknownAttributes \cup EmptyAttributes # {}) =>
              /\ ~op.data.made /\ calls = <<>>
              /\ ErrorCount(diags) = Cardinality(UnknownAttributes \cup EmptyAttributes)
              /\ ErrorPaths = UnknownAttributes \cup EmptyAttributes

\* C14, amended: the client is made and handed on only if the three values
\* are known and non-empty.  When a value is unknown, there is one error
\* for each unknown value and none for the others; when none is unknown,
\* there is one error for each value that is empty after resolution.  In
\* both cases no client is made and no call goes out.
C14_ErrorsByStage ==
    ConfigDone =>
        /\ op.data.made => (UnknownAttributes = {} /\ EmptyAttributes = {})
        /\ UnknownAttributes # {} =>
              /\ ~op.data.made /\ calls = <<>>
              /\ ErrorCount(diags) = Cardinality(UnknownAttributes)
              /\ ErrorPaths = UnknownAttributes
        /\ (UnknownAttributes = {} /\ EmptyAttributes # {}) =>
              /\ ~op.data.made /\ calls = <<>>
              /\ ErrorCount(diags) = Cardinality(EmptyAttributes)
              /\ ErrorPaths = EmptyAttributes

C14_Witness ==
    /\ ConfigDone
    /\ UnknownAttributes = {"host"}
    /\ IsNull(op.plan.config.username) /\ op.plan.env.username = ""
    /\ ErrorCount(diags) = 1 /\ calls = <<>> /\ ~op.data.made

C18_ContainersMirrorServer ==
    CreateSucceeded("app") =>
        /\ aState.present
        /\ IsKnown(aState.val.containers)
        /\ Len(aState.val.containers.val) = Len(op.data.containers)
        /\ \A i \in 1..Len(op.data.containers) :
              /\ aState.val.containers.val[i].name = StringValue(op.data.containers[i].name)
              /\ aState.val.containers.val[i].id = StringValue(op.data.containers[i].id)
        /\ Cardinality(DOMAIN Unmarshal(op.plan.yml.val).compose.services) = 2
              => Len(aState.val.containers.val) = 2

C18_Witness ==
    /\ CreateSucceeded("app") /\ aState.present
    /\ Cardinality(DOMAIN Unmarshal(op.plan.yml.val).compose.services) = 2
    /\ Len(aState.val.containers.val) = 2
    /\ aState.val.containers.val[1].id = StringValue(op.data.containers[1].id)
    /\ aState.val.containers.val[2].name = StringValue(op.data.containers[2].name)
    /\ op.data.containers[1].name # op.data.containers[2].name

(***************************************************************************)
(* Properties of the block specification.                                  *)
(***************************************************************************)
PartialBlock(o) == IsKnown(o) /\ ~FullEntry(o.val)

PartialBlocks(plan) ==
    (IF PartialBlock(plan.restartpolicy) THEN 1 ELSE 0)
    + (IF PartialBlock(plan.cpupin) THEN 1 ELSE 0)

\* C19: a container Create whose plan has a restart policy block or a cpu
\* pin block with a null or unknown sub-field issues the remote create call
\* with that block left empty in the request, records exactly one warning
\* per such block, and records no error unless the remote call itself fails.
C19_PartialBlockSkipped ==
    (op.name = "Create" /\ op.kind = "container" /\ PartialBlocks(op.plan) > 0) =>
        /\ Len(calls) = 1 /\ calls[1].call = "CreateContainer"
        /\ PartialBlock(op.plan.restartpolicy) =>
              calls[1].spec.restartpolicy = [name |-> "", maximumretrycount |-> 0]
        /\ PartialBlock(op.plan.cpupin) =>
              calls[1].spec.cpupin = [cpuids |-> "", type |-> ""]
        /\ ~crashed =>
              /\ WarningCount(diags) = PartialBlocks(op.plan)
              /\ ErrorCount(diags) = IF op.ok THEN 0 ELSE 1

C19_Witness ==
    /\ op.name = "Create" /\ op.kind = "container" /\ op.ok /\ ~crashed
    /\ cState.present
    /\ PartialBlock(op.plan.restartpolicy) /\ ~PartialBlock(op.plan.cpupin)
    /\ IsKnown(op.plan.restartpolicy.val.name)
    /\ calls[1].spec.restartpolicy.name = ""
    /\ WarningCount(diags) = 1 /\ ~HasError(diags)

(***************************************************************************)
(* Properties of the classification specification.                         *)
(***************************************************************************)
Classified(kind) == op.name = "Classified" /\ op.kind = kind

\* The error has the head and a JSON body, status 404, code 1009 and a
\* message that contains "No such container".
NotFoundTriple(e) ==
    /\ e.head = "status" /\ e.body = "json"
    /\ e.status = 404 /\ e.code = 1009
    /\ Contains(e.message, NSC)

\* C16: whenever isNotFound returns, it returns true exactly for the
\* errors with status 404, code 1009 and a message that contains
\* "No such container".
C16_TrueExactlyForTriple ==
    (Classified("container") /\ op.data # "panic") =>
        ((op.data = "true") <=> NotFoundTriple(op.err))

\* C17: for every error that is not the not-found triple, isNotFound
\* returns false and does not crash; and it never crashes.
C17_FalseWithoutCrash ==
    Classified("container") =>
        /\ op.data # "panic" /\ ~crashed
        /\ ~NotFoundTriple(op.err) => op.data = "false"

(***************************************************************************)
(* Properties of the update specification.                                 *)
(***************************************************************************)
CreateCalls == SelectSeq(calls, LAMBDA c : c.call \in {"CreateContainer", "CreateApp"})

Updated(kind) == IF kind = "legacy container" THEN cState ELSE aState

\* The computed attributes are the response's, the configured ones the
\* plan's.
MappedFromResponse(state, plan, data) ==
    /\ \A f \in {"id", "hostname", "runtime"} : state[f] = StringValue(data[f])
    /\ \A f \in {"autoremove", "tty", "openstdin", "privileged"} :
          state[f] = BoolValue(data[f])
    /\ IsKnown(state.portbindings)
    /\ Len(state.portbindings.val) = Len(data.portbindings)
    /\ IsKnown(state.restartpolicy)
    /\ state.restartpolicy.val.name = StringValue(data.restartpolicy.name)
    /\ \A f \in {"type", "name", "image", "network", "networktype", "status",
                  "removeanonvolumes"} : state[f] = plan[f]

\* One create request, the first call, marked operation=recreate, and the
\* state mapped from its response unless an error was recorded.
Recreated(kind) ==
    /\ Len(CreateCalls) = 1
    /\ Len(calls) >= 1
    /\ calls[1].call \in {"CreateContainer", "CreateApp"}
    /\ calls[1].spec.operation = "recreate"
    /\ calls[1].spec.name = ValueString(op.plan.name)
    /\ ~HasError(diags) =>
          /\ op.ok /\ Updated(kind).present
          /\ MappedFromResponse(Updated(kind).val, op.plan, op.data)

\* C20 as stated: every Update, that of the current application included,
\* issues one create request marked operation=recreate and persists the
\* state mapped from its response.
C20_UpdateRecreates == op.name = "Update" => Recreated(op.kind)

\* C20: Update of the legacy container resource and of the legacy
\* application resource issues exactly one create request, marked
\* operation=recreate, and persists the plan overwritten with that
\* request's response unless an error is recorded; Update of the current
\* application issues no request and leaves the state as Create wrote it.
C20_OnlyLegacyUpdateRecreates ==
    op.name = "Update" =>
        IF op.kind = "app"
        THEN calls = <<>> /\ ~HasError(diags) /\ aState.present
             /\ aState.val \in AppCreated
        ELSE Recreated(op.kind)

C20_Witness ==
    /\ op.name = "Update" /\ op.kind = "legacy container" /\ op.ok
    /\ ~HasError(diags)
    /\ Len(calls) = 2 /\ calls[2].call = "StartContainer"
    /\ calls[1].spec.operation = "recreate"
    /\ cState.val.id = StringValue(op.data.id)
    /\ cState.val.status = StringValue("running") /\ op.data.status = "stopped"

(***************************************************************************)
(* Further properties of the lifecycle specification.                      *)
(***************************************************************************)
RemoteCalls ==
    {"CreateContainer", "InspectContainer", "StartContainer", "StopContainer",
     "DeleteContainer", "CreateApplication", "InspectApplication", "StartApplication",
     "StopApplication", "DeleteApplication"}

\* C21: within one Create, Read, Update or Delete each remote call is issued
\* at most once, and a failed remote call that the not-found classifier of
\* Read does not accept ends the operation with an error diagnostic that
\* holds the original error text.
C21_NoRetryErrorSurfaced ==
    op.name \in {"Create", "Read", "Update", "Delete"} =>
        /\ \A c \in RemoteCalls : CallCount(c) <= 1
        /\ (~op.ok /\ op.err # NoError /\ ~(op.name = "Read" /\ Accepted(op))) =>
              \E i \in 1..Len(diags) :
                  diags[i].sev = "error" /\ diags[i].text = op.err

(***************************************************************************)
(* Properties of the response specification.                               *)
(***************************************************************************)
\* The state list has the length of the response list and, entry by entry
\* and field by field, its values.
SameList(stateList, dataList) ==
    /\ IsKnown(stateList)
    /\ Len(stateList.val) = Len(dataList)
    /\ \A i \in 1..Len(dataList) :
          /\ DOMAIN stateList.val[i] = DOMAIN dataList[i]
          /\ \A f \in DOMAIN dataList[i] :
                IsKnown(stateList.val[i][f]) /\ stateList.val[i][f].val = dataList[i][f]

\* C22: whenever WriteState returns, the state it made holds every scalar
\* attribute of the response unchanged, and its networks, volumes, devices
\* and portbindings lists have the length, the order and the field values
\* of the response's lists.
C22_ResponseWrittenUnchanged ==
    (op.kind = "response" /\ op.name = "State" /\ ~crashed) =>
        /\ cState.present
        /\ \A f \in {"id", "name", "image", "type", "status", "hostname", "runtime"} :
              cState.val[f] = StringValue(op.data[f])
        /\ \A f \in {"autoremove", "tty", "openstdin", "privileged"} :
              cState.val[f] = BoolValue(op.data[f])
        /\ \A f \in {"networks", "volumes", "devices", "portbindings"} :
              SameList(cState.val[f], op.data[f])

(***************************************************************************)
(* Properties of the container specification.                              *)
(***************************************************************************)
ReadSucceeded(kind) ==
    op.name = "Read" /\ op.kind = kind /\ op.ok /\ ~crashed /\ ~HasError(diags)

Refreshed == CreateSucceeded("container") \/ ReadSucceeded("container")

\* C23: after every successful Create and every successful Read of a
\* container the persisted id and status, and the IP address, MAC address
\* and gateway of each attached network, are those of the server's
\* response.
C23_ServerFieldsOverwritten ==
    Refreshed =>
        /\ cState.present
        /\ cState.val.id = StringValue(op.data.id)
        /\ cState.val.status = StringValue(op.data.status)
        /\ IsKnown(cState.val.networks)
        /\ Len(cState.val.networks.val) = Len(op.data.networks)
        /\ \A i \in 1..Len(op.data.networks) :
              \A f \in {"ipaddress", "macaddress", "gateway"} :
                  cState.val.networks.val[i][f] = StringValue(op.data.networks[i][f])

C23_Witness ==
    /\ CreateSucceeded("container") /\ cState.present
    /\ ValueString(op.plan.status) = "running" /\ op.data.status = "stopped"
    /\ cState.val.status = StringValue("stopped")
    /\ Len(op.data.networks) = 2
    /\ cState.val.networks.val[2].macaddress.val # ""

\* C24 as stated: after a successful Create or Read the persisted top-level
\* ipaddress is the IP address of the first network of the response.
C24_IPAddressOfFirstNetwork ==
    Refreshed =>
        /\ cState.present
        /\ Len(op.data.networks) >= 1
        /\ cState.val.ipaddress = StringValue(op.data.networks[1].ipaddress)

\* C24: after a successful Create or Read the persisted top-level ipaddress
\* is the IP address of the response's network when the response has
\* exactly one network, and the empty string when it has several; with one
\* network a static ipaddress of the plan that the server applied is in
\* both attributes.
C24_IPAddressOfOnlyNetwork ==
    Refreshed =>
        /\ cState.present
        /\ Len(op.data.networks) >= 1
        /\ cState.val.ipaddress =
              IF Len(op.data.networks) = 1
              THEN StringValue(op.data.networks[1].ipaddress)
              ELSE StringValue("")
        /\ (CreateSucceeded("container") /\ IsKnown(op.plan.ipaddress)
              /\ Len(op.data.networks) = 1
              /\ op.data.networks[1].ipaddress = ValueString(op.plan.ipaddress)) =>
                 /\ cState.val.ipaddress = op.plan.ipaddress
                 /\ cState.val.networks.val[1].ipaddress = op.plan.ipaddress

C24_Witness ==
    /\ CreateSucceeded("container") /\ cState.present
    /\ IsKnown(op.plan.ipaddress) /\ ValueString(op.plan.ipaddress) # ""
    /\ Len(op.data.networks) = 1
    /\ cState.val.ipaddress = op.plan.ipaddress
    /\ cState.val.networks.val[1].ipaddress = op.plan.ipaddress

\* The state a Read builds from an inspect response, the time of the
\* mapping, and the removeanonvolumes and network of the prior state.
RefreshedState(data, now, removeanonvolumes, network) ==
    [WriteState(data, now).state EXCEPT !.removeanonvolumes = removeanonvolumes,
                                        !.network = network]

\* C25: the state a successful container Read persists is a function of the
\* inspect response, the time of the mapping and the prior removeanonvolumes
\* and network alone: no other attribute of the prior state reaches it, so
\* two Reads with the same response and the same prior removeanonvolumes and
\* network persist states that differ at most in last_updated.
C25_ReadServerAuthoritative ==
    [][ReadSucceeded("container")' =>
          /\ cState.present /\ cState'.present
          /\ \E now \in Times :
                cState'.val = RefreshedState(op'.data, now,
                                             cState.val.removeanonvolumes,
                                             cState.val.network)]_vars

C25_Witness ==
    /\ ReadSucceeded("container") /\ cState.present
    /\ Len(op.data.networks) = 2 /\ op.data.status = "stopped"
    /\ cState.val.status = StringValue("stopped")
    /\ cState.val.removeanonvolumes = BoolValue(TRUE)
    /\ IsKnown(cState.val.network)
    /\ \A now \in Times : cState.val # WriteState(op.data, now).state

ContainerCalls == {"CreateContainer", "InspectContainer", "DeleteContainer"}
AppCalls == {"CreateApplication", "InspectApplication", "DeleteApplication"}

\* Every call of the last operation is one of the given client methods.
CallsWithin(names) == \A i \in 1..Len(calls) : calls[i].call \in names

C27_ElementsVerbatim ==
    (op.kind = "map" /\ op.name # "Plan") =>
        /\ Len(calls) = 1 /\ calls[1].call = "CreateContainer"
        /\ \A f \in {"cmd", "entrypoint", "dns"} :
              (IsKnown(op.plan[f]) /\ AllKnown(op.plan[f])) =>
                  calls[1].spec[f] = MapSeq(ValueString, op.plan[f].val)

\* The error text has the "status: <n>," head and a JSON body, with status
\* 404, code 1009 and the message "cannot find compose".
AppNotFoundTriple(e) ==
    /\ e.head = "status" /\ e.body = "json"
    /\ e.status = 404 /\ e.code = 1009
    /\ e.message = <<CFC>>

\* C28: isAppNotFound returns true exactly for the errors with status 404,
\* body code 1009 and body message equal to "cannot find compose"; for
\* every other error, the unparseable ones included, it returns false, and
\* it never crashes.
C28_AppTrueExactlyForTriple ==
    Classified("app") =>
        /\ ~crashed
        /\ op.data = IF AppNotFoundTriple(op.err) THEN "true" ELSE "false"

C28_Witness ==
    /\ Classified("app") /\ ~crashed
    /\ op.data = "true" /\ op.err.status = 404 /\ op.err.message = <<CFC>>

\* An unparseable error text classified as not a not-found error.
C28_WitnessUnparseable ==
    /\ Classified("app") /\ ~crashed
    /\ op.data = "false" /\ op.err.body = "text" /\ op.err.message = <<CFC>>

\* The remote create call of the last operation, a container Create,
\* succeeded.
RemoteCreateSucceeded ==
    /\ op.name = "Create" /\ op.kind = "container" /\ op.ok
    /\ Len(calls) = 1 /\ calls[1].call = "CreateContainer"

\* C29: whenever the remote create call of a container Create has
\* succeeded, the Create ends with the server-assigned ID in the persisted
\* state, whatever happens in the rest of the Create.
C29_CreatedIsTracked ==
    RemoteCreateSucceeded =>
        /\ cState.present
        /\ cState.val.id = StringValue(op.data.id)

\* C30: a container Create or Read whose server call succeeded does not
\* crash, and ends with the response's container in the persisted state or
\* with an error diagnostic, also when the response lists no network.
C30_MappingNeverCrashes ==
    (op.kind = "container" /\ op.name \in {"Create", "Read"} /\ op.ok) =>
        /\ ~crashed
        /\ \/ HasError(diags)
           \/ cState.present /\ cState.val.id = StringValue(op.data.id)

====
